---- MODULE Spec2Model ----
(***************************************************************************)
(* Font matching service: the process-wide reference catalog cache         *)
(* (getDatabase), the matcher cascade of POST /api/match and the distance  *)
(* and similarity scorer of lib/font-features.                             *)
(*                                                                         *)
(* Strings are sequences of one-character strings, so that the regular     *)
(* expressions and the case / whitespace conversions of the source are     *)
(* computed character by character.  Feature values are integers in tenths *)
(* (0.1 units), feature weights in tenths, distances in hundredths.        *)
(***************************************************************************)
EXTENDS Integers, Sequences, FiniteSets, TLC

(***************************************************************************)
(* Bounds of the model                                                     *)
(***************************************************************************)
\* number of concurrently open match requests
MaxReq == 2
\* cap on the number of readFile calls that are counted
MaxReads == 3
\* longest separator run tried between the two words of a spelled name
MaxSep == 2
\* largest distance (in hundredths) scored on its own
MaxDist == 500
\* largest gap (in hundredths) between two distances that are compared
MaxGap == 3
\* largest topN handed to findSimilar on its own
MaxTopN == 4
\* longest run of hexadecimal digits appended to a family name
MaxHexLen == 7
\* longest run of word characters after the "__" of an appended token
MaxTokenLen == 2
\* runs of the builder, and items in the longest list of fonts
MaxRuns == 2
MaxFonts == 101
\* commands in the longest outline of a probe glyph
MaxCmdCount == 18

(***************************************************************************)
(* Characters and the string primitives of JavaScript used by the matcher  *)
(***************************************************************************)
UPPER ==
  <<"A","B","C","D","E","F","G","H","I","J","K","L","M",
    "N","O","P","Q","R","S","T","U","V","W","X","Y","Z">>

LOWER ==
  <<"a","b","c","d","e","f","g","h","i","j","k","l","m",
    "n","o","p","q","r","s","t","u","v","w","x","y","z">>

DIGITS == {"0","1","2","3","4","5","6","7","8","9"}

Range(s) == {s[i] : i \in 1..Len(s)}

\* \s of the regular expressions and of String.prototype.trim
IsSpace(c) == c \in {" ", "\t"}

\* [0-9a-f] under the i flag
IsHex(c) == c \in DIGITS \cup {"a","b","c","d","e","f","A","B","C","D","E","F"}

\* [a-zA-Z0-9_]
IsWord(c) == c \in DIGITS \cup Range(UPPER) \cup Range(LOWER) \cup {"_"}

toLowerChar(c) ==
  IF \E i \in 1..Len(UPPER) : UPPER[i] = c
    THEN LOWER[CHOOSE i \in 1..Len(UPPER) : UPPER[i] = c]
    ELSE c

toLowerCase(s) == [i \in 1..Len(s) |-> toLowerChar(s[i])]

toUpperChar(c) ==
  IF \E i \in 1..Len(LOWER) : LOWER[i] = c
    THEN UPPER[CHOOSE i \in 1..Len(LOWER) : LOWER[i] = c]
    ELSE c

trim(s) ==
  LET solid == {i \in 1..Len(s) : ~IsSpace(s[i])}
  IN  IF solid = {} THEN <<>>
      ELSE SubSeq(s, CHOOSE i \in solid : \A j \in solid : i <= j,
                     CHOOSE i \in solid : \A j \in solid : j <= i)

startsWith(s, p) == Len(p) <= Len(s) /\ SubSeq(s, 1, Len(p)) = p

\* s.replace(/c/g, '') for the characters of drop
removeChars(s, drop) == SelectSeq(s, LAMBDA c : c \notin drop)

\* s.replace(/-/g, ' ')
hyphensToSpaces(s) == [i \in 1..Len(s) |-> IF s[i] = "-" THEN " " ELSE s[i]]

\* s.replace(/\s+/g, ' '): every maximal whitespace run becomes one space
collapseSpaces(s) ==
  LET idx  == [i \in 1..Len(s) |-> i]
      kept == SelectSeq(idx, LAMBDA i : ~IsSpace(s[i]) \/ i = 1 \/ ~IsSpace(s[i - 1]))
  IN  [j \in 1..Len(kept) |-> IF IsSpace(s[kept[j]]) THEN " " ELSE s[kept[j]]]

\* s.split(' ')[0]
firstWord(s) ==
  LET sp == {i \in 1..Len(s) : s[i] = " "}
  IN  IF sp = {} THEN s
      ELSE SubSeq(s, 1, (CHOOSE i \in sp : \A j \in sp : i <= j) - 1)

(***************************************************************************)
(* Family names that occur in the curated table                            *)
(***************************************************************************)
F_Inter == <<"I","n","t","e","r">>
F_Roboto == <<"R","o","b","o","t","o">>
F_SourceSans3 == <<"S","o","u","r","c","e"," ","S","a","n","s"," ","3">>
F_PublicSans == <<"P","u","b","l","i","c"," ","S","a","n","s">>
F_DMSans == <<"D","M"," ","S","a","n","s">>
F_PlusJakartaSans == <<"P","l","u","s"," ","J","a","k","a","r","t","a"," ","S","a","n","s">>
F_AlbertSans == <<"A","l","b","e","r","t"," ","S","a","n","s">>
F_Montserrat == <<"M","o","n","t","s","e","r","r","a","t">>
F_NunitoSans == <<"N","u","n","i","t","o"," ","S","a","n","s">>
F_Poppins == <<"P","o","p","p","i","n","s">>
F_Raleway == <<"R","a","l","e","w","a","y">>
F_WorkSans == <<"W","o","r","k"," ","S","a","n","s">>
F_Jost == <<"J","o","s","t">>
F_Nunito == <<"N","u","n","i","t","o">>
F_Quicksand == <<"Q","u","i","c","k","s","a","n","d">>
F_Outfit == <<"O","u","t","f","i","t">>
F_EBGaramond == <<"E","B"," ","G","a","r","a","m","o","n","d">>
F_CormorantGaramond == <<"C","o","r","m","o","r","a","n","t"," ","G","a","r","a","m","o","n","d">>
F_CrimsonPro == <<"C","r","i","m","s","o","n"," ","P","r","o">>
F_LibreBaskerville == <<"L","i","b","r","e"," ","B","a","s","k","e","r","v","i","l","l","e">>
F_Lora == <<"L","o","r","a">>
F_PlayfairDisplay == <<"P","l","a","y","f","a","i","r"," ","D","i","s","p","l","a","y">>
F_LibreBodoni == <<"L","i","b","r","e"," ","B","o","d","o","n","i">>
F_Cormorant == <<"C","o","r","m","o","r","a","n","t">>
F_DMSerifDisplay == <<"D","M"," ","S","e","r","i","f"," ","D","i","s","p","l","a","y">>
F_AbrilFatface == <<"A","b","r","i","l"," ","F","a","t","f","a","c","e">>

K_helvetica == <<"h","e","l","v","e","t","i","c","a">>
K_helvetica_neue == <<"h","e","l","v","e","t","i","c","a"," ","n","e","u","e">>
K_sf_pro == <<"s","f"," ","p","r","o">>
K_proxima_nova == <<"p","r","o","x","i","m","a"," ","n","o","v","a">>
K_gotham == <<"g","o","t","h","a","m">>
K_futura == <<"f","u","t","u","r","a">>
K_avenir == <<"a","v","e","n","i","r">>
K_circular == <<"c","i","r","c","u","l","a","r">>
K_garamond == <<"g","a","r","a","m","o","n","d">>
K_bodoni == <<"b","o","d","o","n","i">>

(***************************************************************************)
(* Curated overrides for well-known commercial families                    *)
(***************************************************************************)
NAME_OVERRIDES ==
  <<
    [key |-> K_helvetica,
     alts |-> <<
         [family |-> F_Inter, reason |-> "Modern Helvetica successor for screens"],
         [family |-> F_Roboto, reason |-> "Neutral grotesque, very close letterforms"],
         [family |-> F_SourceSans3, reason |-> "Clean neutral sans by Adobe"],
         [family |-> F_PublicSans, reason |-> "Open-source Helvetica alternative"],
         [family |-> F_DMSans, reason |-> "Clean geometric-humanist hybrid"] >>],
    [key |-> K_helvetica_neue,
     alts |-> <<
         [family |-> F_Inter, reason |-> "Modern Helvetica successor with optical sizing"],
         [family |-> F_DMSans, reason |-> "Slightly geometric, very clean"],
         [family |-> F_PublicSans, reason |-> "Open-source Helvetica Neue alternative"],
         [family |-> F_Roboto, reason |-> "Neutral grotesque, similar proportions"],
         [family |-> F_SourceSans3, reason |-> "Highly readable neutral sans"] >>],
    [key |-> K_sf_pro,
     alts |-> <<
         [family |-> F_Inter, reason |-> "Closest free match, designed for UI like SF Pro"],
         [family |-> F_DMSans, reason |-> "Clean geometric with similar x-height"],
         [family |-> F_PlusJakartaSans, reason |-> "Modern geometric display sans"],
         [family |-> F_AlbertSans, reason |-> "Geometric with similar rounded terminals"],
         [family |-> F_PublicSans, reason |-> "Neutral UI-focused sans"] >>],
    [key |-> K_proxima_nova,
     alts |-> <<
         [family |-> F_Montserrat, reason |-> "Known free Proxima Nova alternative"],
         [family |-> F_NunitoSans, reason |-> "Similar proportions and x-height"],
         [family |-> F_Poppins, reason |-> "Geometric with similar character"],
         [family |-> F_Raleway, reason |-> "Similar geometric weight range"],
         [family |-> F_WorkSans, reason |-> "Grotesque-geometric hybrid"] >>],
    [key |-> K_gotham,
     alts |-> <<
         [family |-> F_Montserrat, reason |-> "Made as a free Gotham alternative"],
         [family |-> F_Raleway, reason |-> "Similar geometric proportions"],
         [family |-> F_Poppins, reason |-> "Geometric with similar boldness"],
         [family |-> F_WorkSans, reason |-> "Wide geometric grotesque"],
         [family |-> F_PlusJakartaSans, reason |-> "Modern geometric sans"] >>],
    [key |-> K_futura,
     alts |-> <<
         [family |-> F_Jost, reason |-> "Directly inspired by Futura's geometry"],
         [family |-> F_Poppins, reason |-> "Geometric with similar round shapes"],
         [family |-> F_Nunito, reason |-> "Rounded geometric like Futura"],
         [family |-> F_Quicksand, reason |-> "Geometric rounded sans"],
         [family |-> F_Montserrat, reason |-> "Geometric with similar uppercase"] >>],
    [key |-> K_avenir,
     alts |-> <<
         [family |-> F_NunitoSans, reason |-> "Very close match in feel and proportions"],
         [family |-> F_Nunito, reason |-> "Rounded geometric like Avenir"],
         [family |-> F_Poppins, reason |-> "Geometric with matching warmth"],
         [family |-> F_Outfit, reason |-> "Modern geometric, similar feel"],
         [family |-> F_Montserrat, reason |-> "Geometric with similar weight range"] >>],
    [key |-> K_circular,
     alts |-> <<
         [family |-> F_DMSans, reason |-> "Very similar geometric proportions"],
         [family |-> F_PlusJakartaSans, reason |-> "Modern geometric, similar feel"],
         [family |-> F_AlbertSans, reason |-> "Geometric with similar roundness"],
         [family |-> F_Outfit, reason |-> "Clean geometric, similar character"],
         [family |-> F_Inter, reason |-> "Modern alternative, similar weight"] >>],
    [key |-> K_garamond,
     alts |-> <<
         [family |-> F_EBGaramond, reason |-> "Direct open-source Garamond revival"],
         [family |-> F_CormorantGaramond, reason |-> "Display-oriented Garamond"],
         [family |-> F_CrimsonPro, reason |-> "Old-style with similar elegance"],
         [family |-> F_LibreBaskerville, reason |-> "Classic book serif"],
         [family |-> F_Lora, reason |-> "Contemporary old-style serif"] >>],
    [key |-> K_bodoni,
     alts |-> <<
         [family |-> F_PlayfairDisplay, reason |-> "High-contrast display like Bodoni"],
         [family |-> F_LibreBodoni, reason |-> "Direct open-source Bodoni"],
         [family |-> F_Cormorant, reason |-> "High-contrast elegant serif"],
         [family |-> F_DMSerifDisplay, reason |-> "Modern high-contrast serif"],
         [family |-> F_AbrilFatface, reason |-> "Bold Bodoni-style display"] >>]
  >>

\* The table is a plain object literal: a property read with one of these
\* names finds the inherited member of Object.prototype, which is truthy
\* and is no array.
OBJECT_PROTOTYPE_KEYS ==
  { <<"c","o","n","s","t","r","u","c","t","o","r">>,
    <<"_","_","p","r","o","t","o","_","_">> }

NoOverride == [kind |-> "null", alts |-> <<>>]

InheritedMember == [kind |-> "inherited", alts |-> <<>>]

OverrideList(alts) == [kind |-> "list", alts |-> alts]

HasOwnKey(name) == \E i \in 1..Len(NAME_OVERRIDES) : NAME_OVERRIDES[i].key = name

\* NAME_OVERRIDES[name] is truthy
Truthy(name) == HasOwnKey(name) \/ name \in OBJECT_PROTOTYPE_KEYS

\* NAME_OVERRIDES[name], for a name with Truthy(name)
Lookup(name) ==
  IF HasOwnKey(name)
    THEN OverrideList(NAME_OVERRIDES[CHOOSE i \in 1..Len(NAME_OVERRIDES) :
                                        NAME_OVERRIDES[i].key = name].alts)
    ELSE InheritedMember

\* normalizeName without replace(/-/g, ' ')
normalizeName_keepsHyphens(name) ==
  trim(collapseSpaces(removeChars(toLowerCase(name), {"'"})))

normalizeName(name) ==
  trim(collapseSpaces(hyphensToSpaces(removeChars(toLowerCase(name), {"'"}))))

SUFFIX_TOKENS ==
  << <<"p","r","o">>,
     <<"t","e","x","t">>,
     <<"d","i","s","p","l","a","y">>,
     <<"r","o","u","n","d">>,
     <<"r","o","u","n","d","e","d">>,
     <<"n","e","u","e">>,
     <<"n","e","x","t">>,
     <<"p","t">>,
     <<"l","t">>,
     <<"s","t","d">>,
     <<"m","t">>,
     <<"r","e","g","u","l","a","r">>,
     <<"b","o","l","d">>,
     <<"l","i","g","h","t">>,
     <<"m","e","d","i","u","m">>,
     <<"b","o","o","k">>,
     <<"c","o","n","d","e","n","s","e","d">>,
     <<"n","a","r","r","o","w">>,
     <<"w","i","d","e">>,
     <<"e","x","t","e","n","d","e","d">>,
     <<"v","a","r","i","a","b","l","e">>,
     <<"v","f">>,
     <<"w","e","b">>,
     <<"s","c">>,
     <<"c","a","p","t","i","o","n">>,
     <<"s","u","b","h","e","a","d">>,
     <<"h","e","a","d","l","i","n","e">>,
     <<"t","i","t","l","e">>,
     <<"p","o","s","t","e","r">>,
     <<"b","l","a","c","k">>,
     <<"h","e","a","v","y">>,
     <<"u","l","t","r","a">>,
     <<"t","h","i","n">>,
     <<"h","a","i","r","l","i","n","e">>,
     <<"e","x","t","r","a">>,
     <<"s","e","m","i">> >>

\* s.replace(/\s+(pro|text|...|semi)$/g, '').trim()
stripSuffix(s) ==
  LET cuts == {i \in 1..Len(s) :
                 /\ IsSpace(s[i])
                 /\ \E k \in i + 1..Len(s) :
                      /\ \A j \in i..k - 1 : IsSpace(s[j])
                      /\ SubSeq(s, k, Len(s)) \in Range(SUFFIX_TOKENS)}
  IN  IF cuts = {} THEN trim(s)
      ELSE trim(SubSeq(s, 1, (CHOOSE i \in cuts : \A j \in cuts : i <= j) - 1))

\* the first index of a loop over a table that is among hits, 0 for none
First(hits) ==
  IF hits = {} THEN 0 ELSE CHOOSE i \in hits : \A j \in hits : i <= j

\* Object.keys(NAME_OVERRIDES), in insertion order
Keys == [i \in 1..Len(NAME_OVERRIDES) |-> NAME_OVERRIDES[i].key]

\* findNameOverride whose partial match asks only that the name begins
\* with a key
findNameOverride_nameBeginsWithKey(family) ==
  LET normalized == normalizeName(family)
      stripped   == stripSuffix(normalized)
      partial    == First({i \in 1..Len(Keys) :
                             startsWith(normalized, Keys[i])})
      first      == firstWord(normalized)
      byWord     == First({i \in 1..Len(Keys) :
                             Keys[i] = first \/ firstWord(Keys[i]) = first})
  IN  IF Truthy(normalized) THEN Lookup(normalized)
      ELSE IF stripped # normalized /\ Truthy(stripped) THEN Lookup(stripped)
      ELSE IF partial # 0 THEN OverrideList(NAME_OVERRIDES[partial].alts)
      ELSE IF Len(first) > 3 /\ byWord # 0 THEN OverrideList(NAME_OVERRIDES[byWord].alts)
      ELSE NoOverride

findNameOverride(family) ==
  LET normalized == normalizeName(family)
      stripped   == stripSuffix(normalized)
      partial    == First({i \in 1..Len(Keys) :
                             \/ startsWith(normalized, Keys[i])
                             \/ startsWith(Keys[i], normalized)})
      first      == firstWord(normalized)
      byWord     == First({i \in 1..Len(Keys) :
                             Keys[i] = first \/ firstWord(Keys[i]) = first})
  IN  IF Truthy(normalized) THEN Lookup(normalized)
      ELSE IF stripped # normalized /\ Truthy(stripped) THEN Lookup(stripped)
      ELSE IF partial # 0 THEN OverrideList(NAME_OVERRIDES[partial].alts)
      ELSE IF Len(first) > 3 /\ byWord # 0 THEN OverrideList(NAME_OVERRIDES[byWord].alts)
      ELSE NoOverride

(***************************************************************************)
(* Build-artefact suffixes of declared family names                        *)
(***************************************************************************)
\* s.replace(re, '') for a pattern anchored at the end: the leftmost start
\* from which the rest of the string matches is cut off
cutAtFirst(s, starts) ==
  IF starts = {} THEN s
  ELSE SubSeq(s, 1, (CHOOSE i \in starts : \A j \in starts : i <= j) - 1)

\* stripHexHash without the i flag: only lower-case digits count
stripHexHash_caseSensitive(s) ==
  cutAtFirst(s, {i \in 1..Len(s) :
                   /\ s[i] = "-"
                   /\ Len(s) - i >= 6
                   /\ \A j \in i + 1..Len(s) :
                        s[j] \in DIGITS \cup {"a","b","c","d","e","f"}})

\* /-[0-9a-f]{6,}$/i
stripHexHash(s) ==
  cutAtFirst(s, {i \in 1..Len(s) :
                   /\ s[i] = "-"
                   /\ Len(s) - i >= 6
                   /\ \A j \in i + 1..Len(s) : IsHex(s[j])})

\* /__[a-zA-Z0-9_]+$/
stripRandomId(s) ==
  cutAtFirst(s, {i \in 1..Len(s) - 2 :
                   /\ s[i] = "_" /\ s[i + 1] = "_"
                   /\ \A j \in i + 2..Len(s) : IsWord(s[j])})

\* /-\d{4,}$/
stripNumericId(s) ==
  cutAtFirst(s, {i \in 1..Len(s) :
                   /\ s[i] = "-"
                   /\ Len(s) - i >= 4
                   /\ \A j \in i + 1..Len(s) : s[j] \in DIGITS})

cleanFamilyName(family) == trim(stripNumericId(stripRandomId(stripHexHash(family))))

(***************************************************************************)
(* Name lookup in the catalog.  The result is the index of the record in   *)
(* the catalog, 0 for null.                                                *)
(***************************************************************************)
\* database.find(...) is the first record, in catalog order, that matches
findInDatabase(family, database) ==
  LET lower        == trim(toLowerCase(family))
      cleanedLower == trim(toLowerCase(cleanFamilyName(family)))
      dbLower(i)   == trim(toLowerCase(database[i].family))
      exact        == First({i \in 1..Len(database) : dbLower(i) = lower})
      cleaned      == First({i \in 1..Len(database) : dbLower(i) = cleanedLower})
      prefix       == First({i \in 1..Len(database) :
                               \/ startsWith(dbLower(i), cleanedLower)
                               \/ startsWith(cleanedLower, dbLower(i))})
  IN  IF exact # 0 THEN exact
      ELSE IF cleanedLower # lower /\ cleaned # 0 THEN cleaned
      ELSE IF Len(cleanedLower) >= 3 /\ prefix # 0 THEN prefix
      ELSE 0

(***************************************************************************)
(* Feature vectors, weighted distance and similarity score                 *)
(***************************************************************************)
FEATURE_NAMES ==
  <<"weightClass", "widthClass", "xHeightRatio", "capHeightRatio",
    "ascenderRatio", "descenderRatio", "avgWidthRatio", "serifScore",
    "contrastRatio", "roundness", "isMonospace", "italicAngle",
    "panoseSerif", "panoseWeight", "complexity">>

FEATURE_COUNT == Len(FEATURE_NAMES)

\* FEATURE_WEIGHTS with isMonospace weighted 1.0, like weightClass
FEATURE_WEIGHTS_monoAsWeight == <<10, 8, 13, 7, 5, 5, 10, 18, 9, 7, 10, 3, 9, 4, 5>>

\* in tenths: 1.0, 0.8, 1.3, 0.7, 0.5, 0.5, 1.0, 1.8, 0.9, 0.7, 3.0, 0.3, 0.9, 0.4, 0.5
FEATURE_WEIGHTS == <<10, 8, 13, 7, 5, 5, 10, 18, 9, 7, 30, 3, 9, 4, 5>>

\* upper end of each dimension's clamp, in tenths; every lower end is 0
FEATURE_MAX == <<10, 10, 10, 10, 15, 5, 20, 10, 10, 10, 10, 10, 10, 10, 10>>

\* index of the isMonospace dimension, which takes the values 0 and 1 only
MONO == CHOOSE i \in 1..FEATURE_COUNT : FEATURE_NAMES[i] = "isMonospace"

InRange(v) ==
  /\ Len(v) = FEATURE_COUNT
  /\ \A i \in 1..FEATURE_COUNT : v[i] \in 0..FEATURE_MAX[i]
  /\ v[MONO] \in {0, FEATURE_MAX[MONO]}

\* Math.sqrt, rounded down to the unit of x
Sqrt(x) == CHOOSE r \in 0..x : r * r <= x /\ (r + 1) * (r + 1) > x

\* (a[i] || 0): a missing entry counts as 0
At(a, i) == IF i <= Len(a) THEN a[i] ELSE 0

RECURSIVE SumSq(_, _, _)
SumSq(a, b, i) ==
  IF i > FEATURE_COUNT THEN 0
  ELSE LET diff == At(a, i) - At(b, i)
       IN  FEATURE_WEIGHTS[i] * diff * diff + SumSq(a, b, i + 1)

\* featureDistance with b read one entry too far: (b[i + 1] || 0)
featureDistance_offByOne(a, b) == Sqrt(10 * SumSq(a, Tail(b), 1))

\* sumSq is in thousandths (tenths of weight, hundredths of squared
\* difference); the distance is returned in hundredths
featureDistance(a, b) == Sqrt(10 * SumSq(a, b, 1))

(***************************************************************************)
(* Math.round(100 * Math.exp(-distance * 1.2)) in binary fixed point with  *)
(* 30 fractional bits.  Products are formed from 15-bit halves so that     *)
(* every intermediate value fits in 31 bits.                               *)
(***************************************************************************)
HALF == 2 ^ 15

ONE == HALF * HALF

Mul(a, b) ==
  LET a1 == a \div HALF
      a0 == a % HALF
      b1 == b \div HALF
      b0 == b % HALF
  IN  a1 * b1 + ((a1 * b0 + a0 * b1 + ((a0 * b0) \div HALF)) \div HALF)

\* the terms x^k / k! of the series of exp(-x), k = 1..15, with their signs
RECURSIVE Series(_, _, _)
Series(x, term, k) ==
  IF k > 15 THEN 0
  ELSE LET next == Mul(term, x) \div k
       IN  (IF k % 2 = 1 THEN 0 - next ELSE next) + Series(x, next, k + 1)

\* exp(-x) for 0 <= x <= 1
ExpNeg(x) == ONE + Series(x, ONE, 1)

Square(y) == Mul(y, y)

\* exp(-1.2 * d / 100) = exp(-0.00075 * d) ^ 16, and 0.00075 * 2^30 = 805306.368
Exp12(d) ==
  Square(Square(Square(Square(ExpNeg(d * 805306 + ((d * 368) \div 1000))))))

\* distanceToSimilarity with the factor 1.2 applied to the product:
\* Math.round(100 * Math.exp(-distance * 1.2) * 1.2)
distanceToSimilarity_factorOutside(distance) ==
  (120 * (Exp12(distance) \div 1024) + 524288) \div 1048576

\* Math.round: to the nearest integer, halves upwards
distanceToSimilarity(distance) ==
  (100 * (Exp12(distance) \div 1024) + 524288) \div 1048576

(***************************************************************************)
(* Nearest neighbours                                                      *)
(***************************************************************************)
\* sortByDistance with the comparator b.distance - a.distance
sortByDistance_descending(rs) ==
  LET before(i, j) == \/ rs[i].distance > rs[j].distance
                      \/ rs[i].distance = rs[j].distance /\ i < j
      rank(i) == Cardinality({j \in 1..Len(rs) : before(j, i)}) + 1
  IN  [k \in 1..Len(rs) |-> rs[CHOOSE i \in 1..Len(rs) : rank(i) = k]]

\* Array.prototype.sort with the comparator a.distance - b.distance; the
\* sort is stable, so records of equal distance keep their catalog order
sortByDistance(rs) ==
  LET before(i, j) == \/ rs[i].distance < rs[j].distance
                      \/ rs[i].distance = rs[j].distance /\ i < j
      rank(i) == Cardinality({j \in 1..Len(rs) : before(j, i)}) + 1
  IN  [k \in 1..Len(rs) |-> rs[CHOOSE i \in 1..Len(rs) : rank(i) = k]]

slice(s, from, to) == SubSeq(s, from + 1, IF to < Len(s) THEN to ELSE Len(s))

\* findSimilar comparing the family names as they are written
findSimilar_rawCompare(queryFeatures, database, topN, excludeFamily) ==
  LET kept   == SelectSeq(database, LAMBDA entry :
                  excludeFamily = <<>> \/ entry.family # excludeFamily)
      scored == [i \in 1..Len(kept) |->
                  LET distance == featureDistance(queryFeatures, kept[i].features)
                  IN  [family     |-> kept[i].family,
                       category   |-> kept[i].category,
                       features   |-> kept[i].features,
                       distance   |-> distance,
                       similarity |-> distanceToSimilarity(distance)]]
  IN  slice(sortByDistance(scored), 0, topN)

\* an omitted excludeFamily behaves as the empty string: both make
\* excludeNorm falsy
findSimilar(queryFeatures, database, topN, excludeFamily) ==
  LET excludeNorm == trim(toLowerCase(excludeFamily))
      kept   == SelectSeq(database, LAMBDA entry :
                  excludeNorm = <<>> \/ trim(toLowerCase(entry.family)) # excludeNorm)
      scored == [i \in 1..Len(kept) |->
                  LET distance == featureDistance(queryFeatures, kept[i].features)
                  IN  [family     |-> kept[i].family,
                       category   |-> kept[i].category,
                       features   |-> kept[i].features,
                       distance   |-> distance,
                       similarity |-> distanceToSimilarity(distance)]]
  IN  slice(sortByDistance(scored), 0, topN)

(***************************************************************************)
(* Feature extraction.  A font is the part of an opentype.js Font that the *)
(* extractor reads; a feature is held in thousandths (the scorer works on  *)
(* tenths).                                                                *)
(***************************************************************************)
\* thousandths in 1.0
UNIT == 1000

Abs(x) == IF x < 0 THEN -x ELSE x

\* Math.max(min, Math.min(max, value))
clamp(value, min, max) ==
  IF value < min THEN min ELSE IF value > max THEN max ELSE value

\* num / den, in thousandths
Ratio(num, den) == (num * UNIT) \div den

RECURSIVE Sum(_)
Sum(s) == IF s = <<>> THEN 0 ELSE Head(s) + Sum(Tail(s))

\* glyph 0, which charToGlyph returns for a character the font lacks
NOTDEF ==
  [index |-> 0, throws |-> FALSE, commands |-> <<>>, advanceWidth |-> 0, y2 |-> 0]

charToGlyph(font, char) ==
  IF char \in DOMAIN font.glyphs THEN font.glyphs[char] ELSE NOTDEF

\* os2?.[field] || otherwise
Os2(font, field, otherwise) ==
  IF font.os2 # <<>> /\ font.os2[1][field] # 0 THEN font.os2[1][field]
  ELSE otherwise

\* (os2?.panose || [0, ..., 0])[k] || 0, k counted from 0
Panose(font, k) ==
  IF font.os2 # <<>> /\ k + 1 <= Len(font.os2[1].panose)
    THEN font.os2[1].panose[k + 1]
    ELSE 0

\* post?.[field] || 0
Post(font, field) == IF font.post # <<>> THEN font.post[1][field] ELSE 0

estimateXHeight(font, upm) ==
  LET glyph == charToGlyph(font, "x")
  IN  IF ~glyph.throws /\ glyph.index # 0 /\ glyph.y2 > 0
        THEN clamp(Ratio(glyph.y2, upm), 0, UNIT)
        ELSE 480

estimateCapHeight(font, upm) ==
  LET glyph == charToGlyph(font, "H")
  IN  IF ~glyph.throws /\ glyph.index # 0 /\ glyph.y2 > 0
        THEN clamp(Ratio(glyph.y2, upm), 0, UNIT)
        ELSE 700

\* the average advance width as a fraction <<numerator, denominator>>
estimateAvgWidth(font, upm) ==
  LET glyphs == [i \in 1..Len(LOWER) |-> charToGlyph(font, LOWER[i])]
      widths == [i \in 1..Len(LOWER) |->
                   IF ~glyphs[i].throws /\ glyphs[i].index # 0
                     THEN glyphs[i].advanceWidth ELSE 0]
      count  == Cardinality({i \in 1..Len(LOWER) : widths[i] # 0})
  IN  IF count > 0 THEN <<Sum(widths), count>> ELSE <<upm, 2>>

\* the ratio is the same at every font size, so the outline is measured in
\* font units
estimateContrast(font, upm) ==
  LET glyph == charToGlyph(font, "o")
      cmds  == glyph.commands
      dx(i) == Abs(cmds[i].xy[1] - cmds[i - 1].xy[1])
      dy(i) == Abs(cmds[i].xy[2] - cmds[i - 1].xy[2])
      both  == {i \in 2..Len(cmds) : cmds[i - 1].xy # <<>> /\ cmds[i].xy # <<>>}
      verticalExtent ==
        Sum([i \in 1..Len(cmds) |-> IF i \in both /\ dy(i) > dx(i) * 2 THEN dy(i) ELSE 0])
      horizontalExtent ==
        Sum([i \in 1..Len(cmds) |-> IF i \in both /\ dx(i) > dy(i) * 2 THEN dx(i) ELSE 0])
  IN  IF glyph.throws \/ glyph.index = 0 THEN 300
      ELSE IF verticalExtent + horizontalExtent = 0 THEN 300
      ELSE clamp(Ratio(Abs(verticalExtent - horizontalExtent),
                       verticalExtent + horizontalExtent), 0, UNIT)

SERIF_TEST_CHARS == <<"I","l","T">>

GENERAL_TEST_CHARS ==
  <<"H","o","e","a","A","B","C","D","n","p","q","r","0","1","2","3">>

ALL_TEST_CHARS == SERIF_TEST_CHARS \o GENERAL_TEST_CHARS

\* serifVote with 5 for a serifed I
serifVote_heavierI(char, cmdCount) ==
  IF char = "I"
    THEN (IF cmdCount > 12 THEN 5 ELSE IF cmdCount <= 6 THEN -3 ELSE -1)
  ELSE IF char = "l"
    THEN (IF cmdCount > 10 THEN 2 ELSE IF cmdCount <= 6 THEN -2 ELSE 0)
  ELSE IF char = "T"
    THEN (IF cmdCount > 16 THEN 1 ELSE IF cmdCount <= 8 THEN -1 ELSE 0)
  ELSE 0

\* what the glyph of one of I, l, T adds to serifScore
serifVote(char, cmdCount) ==
  IF char = "I"
    THEN (IF cmdCount > 12 THEN 3 ELSE IF cmdCount <= 6 THEN -3 ELSE -1)
  ELSE IF char = "l"
    THEN (IF cmdCount > 10 THEN 2 ELSE IF cmdCount <= 6 THEN -2 ELSE 0)
  ELSE IF char = "T"
    THEN (IF cmdCount > 16 THEN 1 ELSE IF cmdCount <= 8 THEN -1 ELSE 0)
  ELSE 0

\* the number of commands of one of the given types
CountType(cmds, types) ==
  Cardinality({i \in 1..Len(cmds) : cmds[i].type \in types})

\* analyzeGlyphs without the test widths.length >= 3
analyzeGlyphs_anyCount(font, upm) ==
  LET N             == Len(ALL_TEST_CHARS)
      glyphs        == [i \in 1..N |-> charToGlyph(font, ALL_TEST_CHARS[i])]
      \* the glyphs that reach glyphCount++
      counted       == {i \in 1..N : /\ ~glyphs[i].throws
                                     /\ glyphs[i].index # 0
                                     /\ Len(glyphs[i].commands) > 0}
      cmdCount(i)   == Len(glyphs[i].commands)
      glyphCount    == Cardinality(counted)
      totalCommands == Sum([i \in 1..N |-> IF i \in counted THEN cmdCount(i) ELSE 0])
      totalCurves   == Sum([i \in 1..N |->
                              IF i \in counted
                                THEN CountType(glyphs[i].commands, {"C", "Q"}) ELSE 0])
      totalLines    == Sum([i \in 1..N |->
                              IF i \in counted
                                THEN CountType(glyphs[i].commands, {"L"}) ELSE 0])
      widths        == {i \in counted : glyphs[i].advanceWidth # 0}
      uniqueWidths  == {glyphs[i].advanceWidth : i \in widths}
      serifScore    == Sum([i \in 1..N |->
                              IF i \in counted
                                THEN serifVote(ALL_TEST_CHARS[i], cmdCount(i)) ELSE 0])
      drawCommands  == totalCurves + totalLines
  IN  [serifScore    |-> clamp(Ratio(serifScore + 8, 14), 0, UNIT),
       contrastRatio |-> estimateContrast(font, upm),
       roundness     |-> IF drawCommands > 0 THEN Ratio(totalCurves, drawCommands)
                         ELSE 500,
       complexity    |-> IF glyphCount > 0
                           THEN clamp(Ratio(totalCommands, glyphCount * 80), 0, UNIT)
                           ELSE clamp(Ratio(20, 80), 0, UNIT),
       isMonospace   |-> Cardinality(uniqueWidths) <= 2]

analyzeGlyphs(font, upm) ==
  LET N             == Len(ALL_TEST_CHARS)
      glyphs        == [i \in 1..N |-> charToGlyph(font, ALL_TEST_CHARS[i])]
      \* the glyphs that reach glyphCount++
      counted       == {i \in 1..N : /\ ~glyphs[i].throws
                                     /\ glyphs[i].index # 0
                                     /\ Len(glyphs[i].commands) > 0}
      cmdCount(i)   == Len(glyphs[i].commands)
      glyphCount    == Cardinality(counted)
      totalCommands == Sum([i \in 1..N |-> IF i \in counted THEN cmdCount(i) ELSE 0])
      totalCurves   == Sum([i \in 1..N |->
                              IF i \in counted
                                THEN CountType(glyphs[i].commands, {"C", "Q"}) ELSE 0])
      totalLines    == Sum([i \in 1..N |->
                              IF i \in counted
                                THEN CountType(glyphs[i].commands, {"L"}) ELSE 0])
      widths        == {i \in counted : glyphs[i].advanceWidth # 0}
      uniqueWidths  == {glyphs[i].advanceWidth : i \in widths}
      serifScore    == Sum([i \in 1..N |->
                              IF i \in counted
                                THEN serifVote(ALL_TEST_CHARS[i], cmdCount(i)) ELSE 0])
      drawCommands  == totalCurves + totalLines
  IN  [serifScore    |-> clamp(Ratio(serifScore + 8, 14), 0, UNIT),
       contrastRatio |-> estimateContrast(font, upm),
       roundness     |-> IF drawCommands > 0 THEN Ratio(totalCurves, drawCommands)
                         ELSE 500,
       complexity    |-> IF glyphCount > 0
                           THEN clamp(Ratio(totalCommands, glyphCount * 80), 0, UNIT)
                           ELSE clamp(Ratio(20, 80), 0, UNIT),
       isMonospace   |-> Cardinality(widths) >= 3 /\ Cardinality(uniqueWidths) <= 2]

\* extractFeatures with the ascender ratio left unclamped
extractFeatures_ascenderUnclamped(font) ==
  LET upm           == IF font.unitsPerEm # 0 THEN font.unitsPerEm ELSE 1000
      sxHeight      == Os2(font, "sxHeight", 0)
      sCapHeight    == Os2(font, "sCapHeight", 0)
      ascender      == Os2(font, "sTypoAscender", font.ascender)
      descender     == Os2(font, "sTypoDescender", font.descender)
      xAvgCharWidth == Os2(font, "xAvgCharWidth", 0)
      estimated     == estimateAvgWidth(font, upm)
      glyphAnalysis == analyzeGlyphs(font, upm)
      isMonospace   == \/ Post(font, "isFixedPitch") = 1
                       \/ Panose(font, 3) = 9
                       \/ glyphAnalysis.isMonospace
  IN  << clamp(Ratio(Os2(font, "usWeightClass", 400), 900), 0, UNIT),
         clamp(Ratio(Os2(font, "usWidthClass", 5) - 1, 8), 0, UNIT),
         IF sxHeight > 0 THEN clamp(Ratio(sxHeight, upm), 0, UNIT)
         ELSE estimateXHeight(font, upm),
         IF sCapHeight > 0 THEN clamp(Ratio(sCapHeight, upm), 0, UNIT)
         ELSE estimateCapHeight(font, upm),
         IF ascender # 0 THEN Ratio(ascender, upm) ELSE 800,
         IF descender # 0 THEN clamp(Ratio(Abs(descender), upm), 0, 500)
         ELSE clamp(200, 0, 500),
         IF xAvgCharWidth # 0 THEN clamp(Ratio(xAvgCharWidth, upm), 0, 2 * UNIT)
         ELSE clamp(Ratio(estimated[1], estimated[2] * upm), 0, 2 * UNIT),
         glyphAnalysis.serifScore,
         glyphAnalysis.contrastRatio,
         glyphAnalysis.roundness,
         IF isMonospace THEN UNIT ELSE 0,
         clamp(Ratio(Abs(Post(font, "italicAngle")), 45), 0, UNIT),
         clamp(Ratio(Panose(font, 1), 15), 0, UNIT),
         clamp(Ratio(Panose(font, 2), 15), 0, UNIT),
         glyphAnalysis.complexity >>

\* the fifteen features in the order of FEATURE_NAMES; upm * 0.8 / upm and
\* upm * -0.2 / upm are 0.8 and 0.2 whatever upm is
extractFeatures(font) ==
  LET upm           == IF font.unitsPerEm # 0 THEN font.unitsPerEm ELSE 1000
      sxHeight      == Os2(font, "sxHeight", 0)
      sCapHeight    == Os2(font, "sCapHeight", 0)
      ascender      == Os2(font, "sTypoAscender", font.ascender)
      descender     == Os2(font, "sTypoDescender", font.descender)
      xAvgCharWidth == Os2(font, "xAvgCharWidth", 0)
      estimated     == estimateAvgWidth(font, upm)
      glyphAnalysis == analyzeGlyphs(font, upm)
      isMonospace   == \/ Post(font, "isFixedPitch") = 1
                       \/ Panose(font, 3) = 9
                       \/ glyphAnalysis.isMonospace
  IN  << clamp(Ratio(Os2(font, "usWeightClass", 400), 900), 0, UNIT),
         clamp(Ratio(Os2(font, "usWidthClass", 5) - 1, 8), 0, UNIT),
         IF sxHeight > 0 THEN clamp(Ratio(sxHeight, upm), 0, UNIT)
         ELSE estimateXHeight(font, upm),
         IF sCapHeight > 0 THEN clamp(Ratio(sCapHeight, upm), 0, UNIT)
         ELSE estimateCapHeight(font, upm),
         IF ascender # 0 THEN clamp(Ratio(ascender, upm), 0, UNIT + UNIT \div 2)
         ELSE clamp(800, 0, UNIT + UNIT \div 2),
         IF descender # 0 THEN clamp(Ratio(Abs(descender), upm), 0, 500)
         ELSE clamp(200, 0, 500),
         IF xAvgCharWidth # 0 THEN clamp(Ratio(xAvgCharWidth, upm), 0, 2 * UNIT)
         ELSE clamp(Ratio(estimated[1], estimated[2] * upm), 0, 2 * UNIT),
         glyphAnalysis.serifScore,
         glyphAnalysis.contrastRatio,
         glyphAnalysis.roundness,
         IF isMonospace THEN UNIT ELSE 0,
         clamp(Ratio(Abs(Post(font, "italicAngle")), 45), 0, UNIT),
         clamp(Ratio(Panose(font, 1), 15), 0, UNIT),
         clamp(Ratio(Panose(font, 2), 15), 0, UNIT),
         glyphAnalysis.complexity >>

\* a vector of thousandths at the resolution of the scorer
Tenths(features) ==
  [i \in 1..Len(features) |-> (features[i] + UNIT \div 20) \div (UNIT \div 10)]

(***************************************************************************)
(* Decoding of font bytes.  A buffer is its length, its first four bytes   *)
(* as a big-endian number, and what wawoff2 and opentype.js make of it.    *)
(***************************************************************************)
\* 0x774F4632, "wOF2"
WOFF2_SIGNATURE == 2001684018

Null == [kind |-> "null", value |-> <<>>]

Thrown == [kind |-> "throw", value |-> <<>>]

Value(v) == [kind |-> "value", value |-> v]

\* parseFontBuffer with the DataView read ahead of the try block
parseFontBuffer_readOutsideTry(buffer) ==
  IF buffer.byteLength < 4 THEN Thrown
  ELSE IF buffer.signature = WOFF2_SIGNATURE /\ ~buffer.inflates THEN Null
  ELSE IF ~buffer.parses THEN Null
  ELSE Value(buffer.font)

\* getUint32(0) throws a RangeError on fewer than four bytes; that, a failed
\* decompress and a failed opentype.parse all end in the catch
parseFontBuffer(buffer) ==
  IF buffer.byteLength < 4 THEN Null
  ELSE IF buffer.signature = WOFF2_SIGNATURE /\ ~buffer.inflates THEN Null
  ELSE IF ~buffer.parses THEN Null
  ELSE Value(buffer.font)

extractFeaturesFromBuffer(buffer) ==
  LET font == parseFontBuffer(buffer)
  IN  IF font.kind = "throw" THEN Thrown
      ELSE IF font.kind = "null" THEN Null
      ELSE Value(extractFeatures(font.value))

(***************************************************************************)
(* Catalog records and declared family names used as inputs                *)
(***************************************************************************)
F_RobotoMono == <<"R","o","b","o","t","o"," ","M","o","n","o">>
F_BodoniModa == <<"B","o","d","o","n","i"," ","M","o","d","a">>
F_Caveat == <<"C","a","v","e","a","t">>
F_PTSerif == <<"P","T"," ","S","e","r","i","f">>

N_Helvetica == <<"H","e","l","v","e","t","i","c","a">>
N_HelveticaNeueHyphen == <<"h","e","l","v","e","t","i","c","a","-","n","e","u","e">>
N_InterHashed == <<"I","n","t","e","r","-","2","8","0","2","6","7","e","3","5","3","6","f","d","c","1","1">>
N_Roboto == <<"R","o","b","o","t","o">>
N_FiraCode == <<"F","i","r","a"," ","C","o","d","e">>
N_GillSans == <<"G","i","l","l"," ","S","a","n","s">>
N_TimesSerif == <<"T","i","m","e","s"," ","S","e","r","i","f">>
N_BrushScript == <<"B","r","u","s","h"," ","S","c","r","i","p","t">>
N_Acme == <<"A","c","m","e">>
N_Constructor == <<"c","o","n","s","t","r","u","c","t","o","r">>
N_Blank == <<" "," ">>
N_Hel == <<"H","e","l">>
N_Fu == <<"F","u">>
N_Zz == <<"Z","z">>
N_HashOnly == <<"-","a","b","c","d","e","f">>
N_PoppinsId == <<"p","o","p","p","i","n","s","_","_","a","b","c","1","2","3">>
N_Empty == <<>>
N_Bodoni == <<"B","o","d","o","n","i">>
N_NotoSansMono == <<"N","o","t","o"," ","S","a","n","s"," ","M","o","n","o">>
N_AcmeMonoId == <<"A","c","m","e","_","_","m","o","n","o","1">>

\* feature vectors, in tenths, in the order of FEATURE_NAMES
V_Sans   == <<4, 5, 5, 7, 9, 2, 5, 3, 3, 5,  0, 0, 1, 4, 3>>
V_Geo    == <<4, 5, 5, 7, 10, 3, 6, 3, 2, 6, 0, 0, 1, 4, 3>>
V_Mono   == <<4, 5, 5, 7, 9, 2, 6, 4, 3, 4, 10, 0, 0, 4, 3>>
V_Serif  == <<4, 5, 4, 7, 9, 3, 5, 8, 5, 5,  0, 0, 2, 4, 4>>
V_Didone == <<4, 5, 4, 7, 9, 3, 4, 8, 9, 5,  0, 0, 2, 5, 4>>
V_Script == <<4, 5, 3, 6, 10, 4, 3, 5, 4, 8, 0, 2, 0, 4, 7>>
V_Narrow == <<7, 1, 6, 8, 9, 2, 1, 3, 2, 3,  0, 0, 1, 7, 3>>

Entry(family, category, features) ==
  [family |-> family, category |-> category, features |-> features]

DB_FULL ==
  << Entry(F_Inter,      "sans-serif",  V_Sans),
     Entry(F_RobotoMono, "monospace",   V_Mono),
     Entry(F_Lora,       "serif",       V_Serif),
     Entry(F_BodoniModa, "serif",       V_Didone),
     Entry(F_DMSans,     "sans-serif",  V_Geo),
     Entry(F_Poppins,    "sans-serif",  V_Geo),
     Entry(F_Caveat,     "handwriting", V_Script) >>

DB_SMALL ==
  << Entry(F_PTSerif, "serif",      V_Serif),
     Entry(F_Inter,   "sans-serif", V_Sans) >>

\* what public/data/font-features.json can hold when it is read
CatalogFiles ==
  { [state |-> "missing", entries |-> <<>>],
    [state |-> "invalid", entries |-> <<>>],
    [state |-> "ok",      entries |-> <<>>],
    [state |-> "ok",      entries |-> DB_SMALL],
    [state |-> "ok",      entries |-> DB_FULL] }

\* declared families of the requests of the concurrent specification
ClientFamilies == {N_Empty, N_Helvetica, F_Inter, N_FiraCode, F_BodoniModa}

\* declared families of the requests of the sequential specification
AllFamilies ==
  ClientFamilies \cup
  { N_HelveticaNeueHyphen, F_BodoniModa, N_InterHashed, N_Roboto, N_GillSans,
    N_TimesSerif, N_BrushScript, N_Acme, N_Constructor, N_Blank, N_Hel,
    N_PoppinsId, N_Bodoni, N_NotoSansMono, N_AcmeMonoId, N_Fu, N_Zz,
    N_HashOnly }

(***************************************************************************)
(* Fonts and byte buffers used as inputs                                   *)
(***************************************************************************)
Cmd(type, x, y) == [type |-> type, xy |-> <<x, y>>]

\* closePath carries no point
ClosePath == [type |-> "Z", xy |-> <<>>]

\* a contour of the given numbers of quadratic curves and of straight lines,
\* every step of it diagonal
Outline(curves, lines) ==
  <<Cmd("M", 0, 0)>>
  \o [i \in 1..curves |-> Cmd("Q", i, i)]
  \o [i \in 1..lines |-> Cmd("L", curves + i, curves + i)]
  \o <<ClosePath>>

\* a contour with one vertical and one horizontal stroke of the given
\* lengths, closed by diagonal curves
Ring(vertical, horizontal, curves) ==
  <<Cmd("M", 0, 0), Cmd("L", 0, vertical), Cmd("L", horizontal, vertical)>>
  \o [i \in 1..curves |-> Cmd("Q", horizontal + i, vertical + i)]
  \o <<ClosePath>>

ALPHABET == LOWER \o UPPER \o <<"0","1","2","3","4","5","6","7","8","9">>

GlyphIndex(char) == CHOOSE i \in 1..Len(ALPHABET) : ALPHABET[i] = char

\* the characters the extractor asks a font for
CHARS == Range(ALL_TEST_CHARS) \cup Range(LOWER)

\* glyphs for CHARS: halves gives the number of curves (and of lines) of I,
\* of l, of T and of any other glyph; ring is the outline of o; width is the
\* advance width, which grows with the glyph index when it is proportional
Glyphs(halves, ring, proportional, width, xTop, capTop) ==
  [c \in CHARS |->
     [index        |-> GlyphIndex(c),
      throws       |-> FALSE,
      commands     |-> IF c = "o" THEN ring
                       ELSE IF c = "I" THEN Outline(halves[1], halves[1])
                       ELSE IF c = "l" THEN Outline(halves[2], halves[2])
                       ELSE IF c = "T" THEN Outline(halves[3], halves[3])
                       ELSE Outline(halves[4], halves[4]),
      advanceWidth |-> IF proportional THEN width + 10 * GlyphIndex(c) ELSE width,
      y2           |-> IF c \in Range(LOWER) THEN xTop ELSE capTop]]

G_Sans == Glyphs(<<2, 3, 3, 12>>, Ring(13, 7, 22), TRUE, 300, 500, 700)
G_Didone == Glyphs(<<6, 3, 5, 15>>, Ring(19, 1, 28), TRUE, 250, 400, 700)
G_Slab == Glyphs(<<7, 6, 9, 14>>, Ring(10, 10, 20), TRUE, 350, 480, 690)
G_Mono == Glyphs(<<6, 5, 3, 10>>, Ring(12, 8, 16), FALSE, 600, 520, 720)
G_Heavy == Glyphs(<<50, 50, 50, 50>>, Ring(1, 40, 90), TRUE, 4000, 5000, 6000)
G_Unspaced == Glyphs(<<2, 3, 3, 12>>, Ring(13, 7, 22), FALSE, 0, 0, 0)
G_Blank == [c \in CHARS |-> [G_Sans[c] EXCEPT !.commands = <<>>]]
G_Throwing == [c \in CHARS |-> [G_Sans[c] EXCEPT !.throws = TRUE]]
G_Two == [c \in {"I", "l"} |-> G_Mono[c]]
\* two advance widths: one for letters, one for figures
G_TwoWidths ==
  [c \in CHARS |->
     [G_Sans[c] EXCEPT !.advanceWidth = IF GlyphIndex(c) > 52 THEN 550 ELSE 600]]
\* one advance width and no outlines
G_MonoBlank == [c \in CHARS |-> [G_Mono[c] EXCEPT !.commands = <<>>]]
G_None == [c \in {} |-> NOTDEF]

OS2_Sans ==
  [usWeightClass |-> 400, usWidthClass |-> 5, sxHeight |-> 500, sCapHeight |-> 700,
   sTypoAscender |-> 900, sTypoDescender |-> -200, xAvgCharWidth |-> 500,
   panose |-> <<2, 2, 6, 3, 0, 0, 0, 0, 0, 0>>]

OS2_Didone ==
  [usWeightClass |-> 400, usWidthClass |-> 5, sxHeight |-> 400, sCapHeight |-> 700,
   sTypoAscender |-> 900, sTypoDescender |-> -300, xAvgCharWidth |-> 400,
   panose |-> <<2, 3, 8, 3, 0, 0, 0, 0, 0, 0>>]

\* a table of an old version: every field the extractor reads is missing
OS2_Zero ==
  [usWeightClass |-> 0, usWidthClass |-> 0, sxHeight |-> 0, sCapHeight |-> 0,
   sTypoAscender |-> 0, sTypoDescender |-> 0, xAvgCharWidth |-> 0, panose |-> <<>>]

\* the largest values the fields can hold
OS2_Max ==
  [usWeightClass |-> 65535, usWidthClass |-> 65535, sxHeight |-> 32767,
   sCapHeight |-> 32767, sTypoAscender |-> 32767, sTypoDescender |-> 32767,
   xAvgCharWidth |-> 32767,
   panose |-> <<255, 255, 255, 9, 255, 255, 255, 255, 255, 255>>]

\* the smallest values the signed fields can hold
OS2_Min ==
  [usWeightClass |-> 1, usWidthClass |-> 1, sxHeight |-> -32768,
   sCapHeight |-> -32768, sTypoAscender |-> -32768, sTypoDescender |-> -32768,
   xAvgCharWidth |-> -32768, panose |-> <<0, 15, 15>>]

Font(unitsPerEm, os2, post, hhea, glyphs) ==
  [unitsPerEm |-> unitsPerEm, os2 |-> os2, post |-> post, ascender |-> hhea[1],
   descender |-> hhea[2], glyphs |-> glyphs]

Upright == [isFixedPitch |-> 0, italicAngle |-> 0]

FONT_Sans == Font(1000, <<OS2_Sans>>, <<Upright>>, <<950, -250>>, G_Sans)

FONT_Didone == Font(1000, <<OS2_Didone>>, <<Upright>>, <<950, -250>>, G_Didone)

\* fonts with and without each table, with metrics at both ends of their
\* fields, and with each kind of glyph set
Fonts ==
  { Font(unitsPerEm, os2, post, hhea, glyphs) :
      unitsPerEm \in {0, 16, 1000, 16384},
      os2 \in {<<>>, <<OS2_Sans>>, <<OS2_Zero>>, <<OS2_Max>>, <<OS2_Min>>},
      post \in {<<>>, <<Upright>>, <<[isFixedPitch |-> 1, italicAngle |-> -12]>>,
                <<[isFixedPitch |-> 0, italicAngle |-> 90]>>},
      hhea \in {<<0, 0>>, <<950, -250>>, <<-32768, 32767>>},
      glyphs \in {G_None, G_Sans, G_Slab, G_Mono, G_Heavy, G_Unspaced, G_Blank,
                  G_Throwing, G_Two, G_TwoWidths, G_MonoBlank} }
  \cup {FONT_Sans, FONT_Didone}

NoFont == Font(0, <<>>, <<>>, <<0, 0>>, G_None)

Buffer(byteLength, signature, inflates, parses, font) ==
  [byteLength |-> byteLength, signature |-> signature, inflates |-> inflates,
   parses |-> parses, font |-> font]

NoBuffer == Buffer(0, 0, FALSE, FALSE, NoFont)

\* bodies that are no font: nothing, three bytes, a broken WOFF2 stream, a
\* WOFF2 stream that inflates to something else, an HTML page
BadBuffers ==
  { Buffer(0, 0, FALSE, FALSE, NoFont),
    Buffer(3, 0, FALSE, FALSE, NoFont),
    Buffer(64, WOFF2_SIGNATURE, FALSE, FALSE, NoFont),
    Buffer(64, WOFF2_SIGNATURE, TRUE, FALSE, NoFont),
    Buffer(512, 1008813135, FALSE, FALSE, NoFont) }

\* a WOFF2 file and an uncompressed TrueType file
GoodBuffers ==
  { Buffer(20480, WOFF2_SIGNATURE, TRUE, TRUE, FONT_Sans),
    Buffer(65536, 65536, FALSE, TRUE, FONT_Didone) }

Buffers == BadBuffers \cup GoodBuffers

\* the url field of the request body: absent or present
Urls == {"", "https://site.example/font.woff2"}

QueryVectors == {V_Sans, V_Didone}

\* lines 263-265 and 309-311: the body of an OK response is handed to the
\* extractor; a buffer without features leaves queryFeatures unset, and so
\* would an exception, which the catch around the fetch swallows
Decode(buffer) ==
  LET queryFeatures == extractFeaturesFromBuffer(buffer)
  IN  IF queryFeatures.kind = "value"
        THEN [kind |-> "decoded", buffer |-> buffer,
              features |-> Tenths(queryFeatures.value)]
        ELSE [kind |-> "undecodable", buffer |-> buffer, features |-> <<>>]

\* how the fetch of the font bytes and their decoding can end
FetchOutcomes ==
  { [kind |-> "throws", buffer |-> NoBuffer, features |-> <<>>],
    [kind |-> "notOk",  buffer |-> NoBuffer, features |-> <<>>] }
  \cup { Decode(buffer) : buffer \in Buffers }

(***************************************************************************)
(* The match handler                                                       *)
(***************************************************************************)
includes(s, sub) ==
  \E i \in 1..Len(s) - Len(sub) + 1 : SubSeq(s, i, i + Len(sub) - 1) = sub

NoResponse ==
  [status |-> 0, method |-> "", error |-> "", features |-> <<>>, alternatives |-> <<>>]

ErrorResponse(status, error) ==
  [status |-> status, method |-> "", error |-> error, features |-> <<>>,
   alternatives |-> <<>>]

Json(method, error, features, alternatives) ==
  [status |-> 200, method |-> method, error |-> error, features |-> features,
   alternatives |-> alternatives]

\* one entry of alternatives; category is "" where the code sets none, and
\* the percentage of a visual-match reason is the similarity field
Alt(family, category, similarity, reason) ==
  [family |-> family, category |-> category, similarity |-> similarity,
   reason |-> reason]

FreeOnGoogle == "This exact font is available free on Google Fonts!"

VisualAlts(matches) ==
  [i \in 1..Len(matches) |->
     Alt(matches[i].family, matches[i].category, matches[i].similarity,
         "% visual match")]

\* lines 226-247
NameOverrideResponse(nameMatch, exactMatch, database) ==
  LET overrideAlts == [i \in 1..Len(nameMatch.alts) |->
                         Alt(nameMatch.alts[i].family, "", 95, nameMatch.alts[i].reason)]
  IN  Json("name-override", "", <<>>,
           IF exactMatch # 0
             THEN <<Alt(database[exactMatch].family, "", 100, FreeOnGoogle)>>
                  \o overrideAlts
             ELSE overrideAlts)

\* lines 283-296
ExactMatchResponse(exactMatch, database, similarAlts) ==
  Json("exact-match", "", <<>>,
       <<Alt(database[exactMatch].family, database[exactMatch].category, 100,
             FreeOnGoogle)>> \o similarAlts)

\* lines 313-362
\* FeatureSimilarityResponse that lists all the matches of findSimilar
FeatureSimilarityResponse_sixListed(queryFeatures, cleanedFamily, database) ==
  LET matches == findSimilar(queryFeatures, database, 6, cleanedFamily)
      isTopMatchSameFont ==
        /\ Len(matches) > 0
        /\ trim(toLowerCase(matches[1].family)) = trim(toLowerCase(cleanedFamily))
  IN  Json("feature-similarity", "", queryFeatures,
           IF isTopMatchSameFont
             THEN <<Alt(matches[1].family, matches[1].category, 100, FreeOnGoogle)>>
                  \o VisualAlts(slice(matches, 1, 5))
             ELSE VisualAlts(slice(matches, 0, 6)))

FeatureSimilarityResponse(queryFeatures, cleanedFamily, database) ==
  LET matches == findSimilar(queryFeatures, database, 6, cleanedFamily)
      isTopMatchSameFont ==
        /\ Len(matches) > 0
        /\ trim(toLowerCase(matches[1].family)) = trim(toLowerCase(cleanedFamily))
  IN  Json("feature-similarity", "", queryFeatures,
           IF isTopMatchSameFont
             THEN <<Alt(matches[1].family, matches[1].category, 100, FreeOnGoogle)>>
                  \o VisualAlts(slice(matches, 1, 5))
             ELSE VisualAlts(slice(matches, 0, 5)))

\* categoryFilter with the test for "sans" ahead of the monospace keywords
categoryFilter_sansFirst(lower) ==
  IF includes(lower, <<"s","a","n","s">>)
    THEN "sans-serif"
  ELSE IF \E w \in { <<"m","o","n","o">>, <<"c","o","d","e">>,
                     <<"c","o","u","r","i","e","r">>, <<"c","o","n","s","o","l","a","s">>,
                     <<"m","e","n","l","o">>, <<"t","e","r","m","i","n","a","l">> } :
        includes(lower, w)
    THEN "monospace"
  ELSE IF includes(lower, <<"s","e","r","i","f">>)
    THEN "serif"
  ELSE IF \E w \in { <<"s","c","r","i","p","t">>, <<"c","u","r","s","i","v","e">>,
                     <<"h","a","n","d","w","r","i","t">>, <<"b","r","u","s","h">>,
                     <<"c","a","l","l","i","g">> } :
        includes(lower, w)
    THEN "handwriting"
  ELSE ""

\* part of lines 381-386
categoryFilter(lower) ==
  IF \E w \in { <<"m","o","n","o">>, <<"c","o","d","e">>,
                <<"c","o","u","r","i","e","r">>, <<"c","o","n","s","o","l","a","s">>,
                <<"m","e","n","l","o">>, <<"t","e","r","m","i","n","a","l">> } :
        includes(lower, w)
    THEN "monospace"
  ELSE IF includes(lower, <<"s","e","r","i","f">>) /\ ~includes(lower, <<"s","a","n","s">>)
    THEN "serif"
  ELSE IF includes(lower, <<"s","a","n","s">>)
    THEN "sans-serif"
  ELSE IF \E w \in { <<"s","c","r","i","p","t">>, <<"c","u","r","s","i","v","e">>,
                     <<"h","a","n","d","w","r","i","t">>, <<"b","r","u","s","h">>,
                     <<"c","a","l","l","i","g">> } :
        includes(lower, w)
    THEN "handwriting"
  ELSE ""

\* NameOnlyResponse without the test of database.length === 0
NameOnlyResponse_noEmptyCheck(cleanedFamily, database) ==
  LET filter   == categoryFilter(toLowerCase(cleanedFamily))
      filtered == IF filter # ""
                    THEN SelectSeq(database, LAMBDA e : e.category = filter)
                    ELSE database
      fallback == slice(filtered, 0, 5)
  IN  Json("category-fallback", "", <<>>,
           [i \in 1..Len(fallback) |->
              Alt(fallback[i].family, fallback[i].category, 50, "Category match")])

\* lines 370-403: what is left when no earlier strategy has answered
NameOnlyResponse(cleanedFamily, database) ==
  IF Len(database) = 0
    THEN Json("no-database",
              "Font feature database not built yet. Run: npm run build:features",
              <<>>, <<>>)
    ELSE LET filter   == categoryFilter(toLowerCase(cleanedFamily))
             filtered == IF filter # ""
                           THEN SelectSeq(database, LAMBDA e : e.category = filter)
                           ELSE database
             fallback == slice(filtered, 0, 5)
         IN  Json("category-fallback", "", <<>>,
                  [i \in 1..Len(fallback) |->
                     Alt(fallback[i].family, fallback[i].category, 50, "Category match")])

\* BeforeFetch with the catalog hit answered ahead of the curated override
BeforeFetch_catalogFirst(family, url, database) ==
  LET cleanedFamily == cleanFamilyName(family)
      exactMatch    == findInDatabase(family, database)
      lookupName    == IF exactMatch # 0 THEN database[exactMatch].family
                       ELSE cleanedFamily
      nameMatch     == findNameOverride(lookupName)
  IN  IF family = <<>>
        THEN [await |-> "", response |-> ErrorResponse(400, "Font family is required")]
      ELSE IF exactMatch # 0
        THEN IF url # ""
               THEN [await |-> "exact", response |-> NoResponse]
               ELSE [await |-> "", response |-> ExactMatchResponse(exactMatch, database, <<>>)]
      ELSE IF nameMatch.kind = "inherited"
        THEN [await |-> "", response |-> ErrorResponse(500, "Failed to find similar fonts")]
      ELSE IF nameMatch.kind = "list"
        THEN [await |-> "", response |-> NameOverrideResponse(nameMatch, exactMatch, database)]
      ELSE IF Len(database) > 0 /\ url # ""
        THEN [await |-> "feature", response |-> NoResponse]
      ELSE [await |-> "", response |-> NameOnlyResponse(cleanedFamily, database)]

\* lines 208-301, from the parsed body to the first await of a fetch: either
\* the response, or the fetch the handler now waits for
BeforeFetch(family, url, database) ==
  LET cleanedFamily == cleanFamilyName(family)
      exactMatch    == findInDatabase(family, database)
      lookupName    == IF exactMatch # 0 THEN database[exactMatch].family
                       ELSE cleanedFamily
      nameMatch     == findNameOverride(lookupName)
  IN  IF family = <<>>
        THEN [await |-> "", response |-> ErrorResponse(400, "Font family is required")]
      ELSE IF nameMatch.kind = "inherited"
        \* nameMatch.map is not a function: the TypeError reaches the outer catch
        THEN [await |-> "", response |-> ErrorResponse(500, "Failed to find similar fonts")]
      ELSE IF nameMatch.kind = "list"
        THEN [await |-> "", response |-> NameOverrideResponse(nameMatch, exactMatch, database)]
      ELSE IF exactMatch # 0
        THEN IF url # ""
               THEN [await |-> "exact", response |-> NoResponse]
               ELSE [await |-> "", response |-> ExactMatchResponse(exactMatch, database, <<>>)]
      ELSE IF Len(database) > 0 /\ url # ""
        THEN [await |-> "feature", response |-> NoResponse]
      ELSE [await |-> "", response |-> NameOnlyResponse(cleanedFamily, database)]

\* AfterFetch without the try around the fetch: a failure reaches the outer
\* catch
AfterFetch_fetchUncaught(family, database, await, outcome) ==
  LET cleanedFamily == cleanFamilyName(family)
      exactMatch    == findInDatabase(family, database)
  IN  IF outcome.kind = "throws"
        THEN ErrorResponse(500, "Failed to find similar fonts")
      ELSE IF await = "exact"
        THEN ExactMatchResponse(exactMatch, database,
               IF outcome.kind = "decoded"
                 THEN VisualAlts(findSimilar(outcome.features, database, 4,
                                             database[exactMatch].family))
                 ELSE <<>>)
      ELSE IF outcome.kind = "decoded"
        THEN FeatureSimilarityResponse(outcome.features, cleanedFamily, database)
      ELSE NameOnlyResponse(cleanedFamily, database)

\* AfterFetch with nothing excluded from the neighbours of a catalog hit
AfterFetch_noExclude(family, database, await, outcome) ==
  LET cleanedFamily == cleanFamilyName(family)
      exactMatch    == findInDatabase(family, database)
  IN  IF await = "exact"
        THEN ExactMatchResponse(exactMatch, database,
               IF outcome.kind = "decoded"
                 THEN VisualAlts(findSimilar(outcome.features, database, 4, <<>>))
                 ELSE <<>>)
      ELSE IF outcome.kind = "decoded"
        THEN FeatureSimilarityResponse(outcome.features, cleanedFamily, database)
      ELSE NameOnlyResponse(cleanedFamily, database)

\* the rest of the handler once the awaited fetch has ended with outcome
AfterFetch(family, database, await, outcome) ==
  LET cleanedFamily == cleanFamilyName(family)
      exactMatch    == findInDatabase(family, database)
  IN  IF await = "exact"
        THEN ExactMatchResponse(exactMatch, database,
               IF outcome.kind = "decoded"
                 THEN VisualAlts(findSimilar(outcome.features, database, 4,
                                             database[exactMatch].family))
                 ELSE <<>>)
      ELSE IF outcome.kind = "decoded"
        THEN FeatureSimilarityResponse(outcome.features, cleanedFamily, database)
      ELSE NameOnlyResponse(cleanedFamily, database)

(***************************************************************************)
(* State                                                                   *)
(***************************************************************************)
VARIABLES
  file,          \* public/data/font-features.json as the process finds it
  fontDatabase,  \* the module-scope cache: <<>> for null, <<entries>> once set
  nameOverrides, \* the NAME_OVERRIDES object as it is now
  readCount,     \* number of fs.readFile calls made so far
  req,           \* the open match requests, by slot
  args,          \* arguments of a library function called on its own
  result,        \* what that call returned
  fontList,      \* the items the Google Fonts API lists, in its order
  build,         \* the builder process: its position and its local variables
  disk,          \* the checkpoint file and the output file of the builder
  history,       \* what the runs of the builder so far have done
  crawl          \* the traversal of the stylesheets of one extraction request

serviceVars == <<file, fontDatabase, nameOverrides, readCount, req, args, result>>

builderVars == <<fontList, build, disk, history>>

vars == <<serviceVars, builderVars, crawl>>

NoFetch == [kind |-> "none", buffer |-> NoBuffer, features |-> <<>>]

Idle ==
  [pc |-> "idle", family |-> <<>>, url |-> "", database |-> <<>>, await |-> "",
   fetched |-> NoFetch, response |-> NoResponse]

NoCall == [fn |-> "", in |-> <<>>]

(***************************************************************************)
(* The stylesheets of a page and their traversal                           *)
(***************************************************************************)

MAX_IMPORT_DEPTH == 3

\* a page: the lists of stylesheet URLs its handler traverses one after the
\* other (the imports of each inline style, then the linked stylesheets),
\* the imports of every stylesheet and the stylesheets that cannot be got
Site(batches, imports, broken) ==
  [batches |-> batches, imports |-> imports, broken |-> broken]

CssUrls == {"a", "b", "c", "d", "e", "f"}

Imports(a, b, c, d, e, f) ==
  [u \in CssUrls |->
     IF u = "a" THEN a ELSE IF u = "b" THEN b ELSE IF u = "c" THEN c
     ELSE IF u = "d" THEN d ELSE IF u = "e" THEN e ELSE f]

\* a stylesheet that imports itself
SITE_Self == Site(<< <<"a">> >>, Imports(<<"a">>, <<>>, <<>>, <<>>, <<>>, <<>>), {})

\* two stylesheets that import each other, both linked, one linked twice
SITE_Cycle ==
  Site(<< <<"a", "b", "a">> >>,
       Imports(<<"b">>, <<"a">>, <<>>, <<>>, <<>>, <<>>), {})

\* a chain of imports longer than MAX_IMPORT_DEPTH
SITE_Chain ==
  Site(<< <<"a">> >>,
       Imports(<<"b">>, <<"c">>, <<"d">>, <<"e">>, <<"f">>, <<>>), {})

\* siblings that import the same stylesheet, which imports the first again
SITE_Diamond ==
  Site(<< <<"a">> >>,
       Imports(<<"b", "c">>, <<"d", "e">>, <<"d", "e">>, <<"a", "f">>, <<"f">>,
               <<"b">>), {})

\* an inline style and two linked stylesheets with shared imports, one of
\* which cannot be got
SITE_Mixed ==
  Site(<< <<"a", "b">>, <<"c", "b", "d">> >>,
       Imports(<<"e", "c">>, <<"e", "f">>, <<"a", "f">>, <<"d", "b">>,
               <<"f", "a">>, <<"e">>), {"e"})

Sites == {SITE_Self, SITE_Cycle, SITE_Chain, SITE_Diamond, SITE_Mixed}

\* one call of fetchAndParseCSS that has got past its first line
CssCall(url, depth, parent, pc) ==
  [url |-> url, depth |-> depth, parent |-> parent, pc |-> pc]

\* no request is traversing stylesheets
NoCrawl ==
  [site |-> Site(<<>>, Imports(<<>>, <<>>, <<>>, <<>>, <<>>, <<>>), {}),
   batch |-> 0, fetchedUrls |-> {}, calls |-> <<>>,
   fetches |-> [u \in CssUrls |-> 0]]

\* fetchAndParseCSS without fetchedUrls.add(url)
fetchAndParseCSS_noAdd(state, url, depth, parent) ==
  IF depth > MAX_IMPORT_DEPTH \/ url \in state.fetchedUrls
    THEN state
    ELSE [state EXCEPT
            !.calls = Append(@, CssCall(url, depth, parent, "fetching")),
            !.fetches[url] = @ + 1]

\* lines 652-657: fetchAndParseCSS up to its first await.  The call returns
\* at once, or adds the URL to the set and sends the request.
fetchAndParseCSS(state, url, depth, parent) ==
  IF depth > MAX_IMPORT_DEPTH \/ url \in state.fetchedUrls
    THEN state
    ELSE [state EXCEPT
            !.fetchedUrls = @ \cup {url},
            !.calls = Append(@, CssCall(url, depth, parent, "fetching")),
            !.fetches[url] = @ + 1]

RECURSIVE mapFetchAndParseCSS(_, _, _, _)
\* urls.map(u => fetchAndParseCSS(u, depth, fetchedUrls)): the calls are
\* made one after the other, each up to its first await
mapFetchAndParseCSS(state, urls, depth, parent) ==
  IF urls = <<>> THEN state
  ELSE mapFetchAndParseCSS(fetchAndParseCSS(state, Head(urls), depth, parent),
                           Tail(urls), depth, parent)

(***************************************************************************)
(* The catalog builder: its files and its process                          *)
(***************************************************************************)

\* "Save progress every 50 fonts": succeeded % 50 === 0
CHECKPOINT_EVERY == 50

\* one item of the list the Google Fonts API returns.  fileUrl is what
\* files.regular || files['400'] || Object.values(files)[0] gives, "" when
\* there is none; downloads says whether downloadFont gets the bytes;
\* features is what extractFeaturesFromFont makes of them, <<>> for null.
GoogleFont(family, category, fileUrl, downloads, features) ==
  [family |-> family, category |-> category, fileUrl |-> fileUrl,
   downloads |-> downloads, features |-> features]

\* a list of n items, families named by their rank.  In a rough list some
\* items have no file, some downloads fail and some files do not parse.
FontList(n, rough) ==
  [k \in 1..n |->
     GoogleFont(k,
                IF k % 2 = 0 THEN "sans-serif" ELSE "serif",
                IF rough /\ k % 7 = 3 THEN "" ELSE "url",
                ~(rough /\ k % 5 = 4),
                IF rough /\ k % 11 = 6 THEN <<>>
                ELSE IF k % 2 = 0 THEN <<V_Sans>> ELSE <<V_Didone>>)]

ListLengths == {0, 1, 2, CHECKPOINT_EVERY - 1, CHECKPOINT_EVERY, MaxFonts}

FontLists == {FontList(n, rough) : n \in ListLengths, rough \in BOOLEAN}

\* a file of the builder: absent, holding the JSON of a list of entries,
\* or cut short by a kill in the middle of writeFileSync
NoFile == [exists |-> FALSE, valid |-> FALSE, entries |-> <<>>]

Written(entries) == [exists |-> TRUE, valid |-> TRUE, entries |-> entries]

Truncated == [exists |-> TRUE, valid |-> FALSE, entries |-> <<>>]

familiesOf(entries) == {entries[j].family : j \in 1..Len(entries)}

\* "Delay between font downloads to be respectful"
DELAY_MS == 80

\* nothing has run yet.  Of the running process history keeps the number
\* of downloads begun, the number of downloads in flight and the time
\* slept since the last download ended.
NoHistory ==
  [runs |-> 0, completed |-> {}, attempts |-> 0, inFlight |-> 0, slept |-> 0]

\* no builder process is running
Off ==
  [pc |-> "off", i |-> 0, results |-> <<>>, processed |-> {},
   succeeded |-> 0, failed |-> 0]

BuilderIdle ==
  /\ fontList = <<>>
  /\ build = Off
  /\ disk = [progress |-> NoFile, output |-> NoFile]
  /\ history = NoHistory
  /\ crawl = NoCrawl

ServiceInit ==
  /\ file \in CatalogFiles
  /\ fontDatabase = <<>>
  /\ nameOverrides = NAME_OVERRIDES
  /\ readCount = 0
  /\ req = [r \in 1..MaxReq |-> Idle]

\* overridesAfterPrepend with unshift applied to the list of the table
overridesAfterPrepend_inPlace(table, alts, entry) ==
  [i \in 1..Len(table) |->
     IF table[i].alts = alts
       THEN [table[i] EXCEPT !.alts = <<entry>> \o alts]
       ELSE table[i]]

\* lines 226-241: the table after unshift(entry) in the name-override
\* branch, which found the list alts.  overrideAlts is the array that map
\* made from the list, and unshift grows that array.
overridesAfterPrepend(table, alts, entry) == table

\* part_002 lines 345-357: the catalog after findSimilar.  filter and map
\* return new arrays, and sort orders the array that map returned.
databaseAfterFindSimilar(queryFeatures, database) == database

\* lines 388-392: the catalog after the category filter.  filter returns a
\* new array and slice copies the first five of it, or of the catalog.
databaseAfterFallback(database) == database

\* the catalog array a handler worked on, after the steps that led it from
\* one await to response; findInDatabase only reads (find, lines 177-197)
CatalogAfter(database, outcome, response) ==
  LET similar == IF outcome.kind = "decoded"
                   THEN databaseAfterFindSimilar(outcome.features, database)
                   ELSE database
  IN  IF response.method = "category-fallback"
        THEN databaseAfterFallback(similar)
        ELSE similar

\* the cache after such steps: its array is the one the handler works on,
\* unless a failed load handed the handler an array of its own
CacheAfter(cache, database, outcome, response) ==
  IF cache # <<>> /\ cache[1] = database
    THEN <<CatalogAfter(database, outcome, response)>>
    ELSE cache

\* the override table after the steps that led to response
OverridesAfter(table, family, database, response) ==
  LET exactMatch == findInDatabase(family, database)
      lookupName == IF exactMatch # 0 THEN database[exactMatch].family
                    ELSE cleanFamilyName(family)
  IN  IF response.method = "name-override" /\ exactMatch # 0
        THEN overridesAfterPrepend(table, findNameOverride(lookupName).alts,
               [family |-> database[exactMatch].family, reason |-> FreeOnGoogle])
        ELSE table

\* the handler runs from the database it was handed to its next await
Proceed(r, family, url, database, cache) ==
  LET step == BeforeFetch(family, url, database)
  IN  /\ req' = [req EXCEPT ![r] =
                   [pc       |-> IF step.await = "" THEN "done" ELSE "fetching",
                    family   |-> family,
                    url      |-> url,
                    database |-> database,
                    await    |-> step.await,
                    fetched  |-> NoFetch,
                    response |-> step.response]]
      /\ fontDatabase' = CacheAfter(cache, database, NoFetch, step.response)
      /\ nameOverrides' = OverridesAfter(nameOverrides, family, database,
                                         step.response)

\* POST /api/match arrives; getDatabase returns the cache when it is set
\* and starts reading the file otherwise
Receive(r, family, url) ==
  /\ req[r].pc = "idle"
  /\ IF family = <<>> \/ fontDatabase # <<>>
       THEN /\ Proceed(r, family, url,
                       IF fontDatabase # <<>> THEN fontDatabase[1] ELSE <<>>,
                       fontDatabase)
            /\ UNCHANGED readCount
       ELSE /\ readCount < MaxReads
            /\ readCount' = readCount + 1
            /\ req' = [req EXCEPT ![r] =
                         [Idle EXCEPT !.pc = "reading", !.family = family, !.url = url]]
            /\ UNCHANGED <<fontDatabase, nameOverrides>>
  /\ UNCHANGED <<file, args, result, builderVars, crawl>>

\* fs.readFile settles: JSON.parse of a readable file sets the cache; a
\* missing or unparsable file leaves it null and the caller gets []
ReadFileDone(r) ==
  /\ req[r].pc = "reading"
  /\ IF file.state = "ok"
       THEN Proceed(r, req[r].family, req[r].url, file.entries, <<file.entries>>)
       ELSE Proceed(r, req[r].family, req[r].url, <<>>, fontDatabase)
  /\ UNCHANGED <<file, readCount, args, result, builderVars, crawl>>

\* the fetch of the font bytes ends
FetchDone(r, outcome) ==
  /\ req[r].pc = "fetching"
  /\ req' = [req EXCEPT ![r].pc = "done",
                        ![r].fetched = outcome,
                        ![r].response = AfterFetch(req[r].family, req[r].database,
                                                   req[r].await, outcome)]
  /\ fontDatabase' = CacheAfter(fontDatabase, req[r].database, outcome,
                                AfterFetch(req[r].family, req[r].database,
                                           req[r].await, outcome))
  /\ UNCHANGED <<file, nameOverrides, readCount, args, result, builderVars, crawl>>

\* the response has been sent
Close(r) ==
  /\ req[r].pc = "done"
  /\ req' = [req EXCEPT ![r] = Idle]
  /\ UNCHANGED <<file, fontDatabase, nameOverrides, readCount, args, result, builderVars, crawl>>

Init == ServiceInit /\ BuilderIdle /\ args = NoCall /\ result = <<>>

Next ==
  \E r \in 1..MaxReq :
    \/ \E family \in ClientFamilies, url \in Urls : Receive(r, family, url)
    \/ ReadFileDone(r)
    \/ \E outcome \in FetchOutcomes : FetchDone(r, outcome)
    \/ Close(r)

\* any number of match requests in flight in one process
Spec == Init /\ [][Next]_vars

NextMatch ==
  \/ \E family \in AllFamilies, url \in Urls : Receive(1, family, url)
  \/ ReadFileDone(1)
  \/ \E outcome \in FetchOutcomes : FetchDone(1, outcome)
  \/ Close(1)

\* one match request at a time, over every declared family
SpecMatch == Init /\ [][NextMatch]_vars

\* the same, with a finished response sent sooner or later.  The awaited
\* fetch is left to the server at the other end: the calls at lines 262 and
\* 309 pass no signal and set no timer, so no step of the handler ends the
\* wait, and the end of a fetch is not a step the process can be relied on
\* to take.
SpecMatchFair == Init /\ [][NextMatch]_vars /\ WF_vars(Close(1))

(***************************************************************************)
(* The library functions called on their own, on arguments drawn from      *)
(* bounded sets                                                            *)
(***************************************************************************)
ServiceIdle ==
  /\ file = [state |-> "missing", entries |-> <<>>]
  /\ fontDatabase = <<>>
  /\ nameOverrides = NAME_OVERRIDES
  /\ readCount = 0
  /\ req = [r \in 1..MaxReq |-> Idle]

\* the function named by args is applied to them, once
Call(fn, out) ==
  /\ args.fn = fn
  /\ result = <<>>
  /\ result' = <<out>>
  /\ UNCHANGED <<file, fontDatabase, nameOverrides, readCount, req, args, builderVars, crawl>>

\* a catalog whose family names differ in case and padding only
DB_CASES ==
  << Entry(<<"I","N","T","E","R">>,         "sans-serif", V_Geo),
     Entry(F_Lora,                          "serif",      V_Serif),
     Entry(<<" ","i","n","t","e","r"," ">>, "sans-serif", V_Sans),
     Entry(F_Inter,                         "sans-serif", V_Sans) >>

Vectors == {V_Sans, V_Geo, V_Mono, V_Serif, V_Didone, V_Script, V_Narrow}

\* v with dimension k set to x
With(v, k, x) == [v EXCEPT ![k] = x]

FindSimilarArgs ==
  { <<q, db, topN, ex>> :
      q \in QueryVectors \cup {V_Script},
      db \in {<<>>, DB_SMALL, DB_FULL, DB_CASES},
      topN \in 0..MaxTopN,
      ex \in {<<>>, N_Blank, F_Inter, <<" ","I","n","T","e","R","\t">>, F_Lora, N_Acme} }

\* pairs of in-range vectors that differ in at most one dimension
FeatureDistanceArgs ==
  { <<a, With(a, kx[1], kx[2])>> :
      a \in Vectors,
      kx \in { <<k, x>> \in (1..FEATURE_COUNT) \X (0..20) :
                 /\ x <= FEATURE_MAX[k]
                 /\ k = MONO => x \in {0, FEATURE_MAX[MONO]} } }
  \cup (Vectors \X Vectors)

DistanceToSimilarityArgs ==
  { <<d, d + gap>> : d \in 0..MaxDist - MaxGap, gap \in 1..MaxGap }

CallFindSimilar ==
  Call("findSimilar",
       findSimilar(args.in[1], args.in[2], args.in[3], args.in[4]))

CallFeatureDistance ==
  Call("featureDistance",
       [ab |-> featureDistance(args.in[1], args.in[2]),
        ba |-> featureDistance(args.in[2], args.in[1]),
        aa |-> featureDistance(args.in[1], args.in[1])])

CallDistanceToSimilarity ==
  Call("distanceToSimilarity",
       <<distanceToSimilarity(args.in[1]), distanceToSimilarity(args.in[2])>>)

InitScorer ==
  /\ ServiceIdle
  /\ BuilderIdle
  /\ result = <<>>
  /\ args \in [fn : {"findSimilar"}, in : FindSimilarArgs]
         \cup [fn : {"featureDistance"}, in : FeatureDistanceArgs]
         \cup [fn : {"distanceToSimilarity"}, in : DistanceToSimilarityArgs]

NextScorer == CallFindSimilar \/ CallFeatureDistance \/ CallDistanceToSimilarity

SpecScorer == InitScorer /\ [][NextScorer]_vars

toUpperCase(s) == [i \in 1..Len(s) |-> toUpperChar(s[i])]

\* a word in lower case, in upper case, capitalised and in alternating case
Casings(w) ==
  { toLowerCase(w),
    toUpperCase(w),
    [i \in 1..Len(w) |-> IF i = 1 THEN toUpperChar(w[i]) ELSE toLowerChar(w[i])],
    [i \in 1..Len(w) |-> IF i % 2 = 0 THEN toUpperChar(w[i]) ELSE toLowerChar(w[i])] }

\* what may stand for the space between two words: hyphens and whitespace
Separators == UNION { [1..n -> {" ", "-", "\t"}] : n \in 1..MaxSep }

\* the spellings of "Helvetica Neue"
SpelledHelveticaNeue ==
  { first \o sep \o second :
      first \in Casings(K_helvetica),
      sep \in Separators,
      second \in Casings(<<"n","e","u","e">>) }

F_Exo == <<"E","x","o">>
F_Exo2 == <<"E","x","o"," ","2">>

\* a catalog in which one family name is the beginning of a later one, and
\* one follows a longer name that begins with it
DB_PREFIXES ==
  << Entry(F_Roboto,     "sans-serif", V_Sans),
     Entry(F_RobotoMono, "monospace",  V_Mono),
     Entry(F_Exo2,       "sans-serif", V_Geo),
     Entry(F_Exo,        "sans-serif", V_Geo) >>

\* '-' and six or more hexadecimal digits, in either case
HexSuffixes ==
  { <<"-">> \o h : h \in UNION { [1..n -> {"a", "F"}] : n \in 6..MaxHexLen } }
  \cup { SubSeq(N_InterHashed, Len(F_Inter) + 1, Len(N_InterHashed)),
         <<"-","0","1","2","3","4","5","6","7","8","9">> }

\* "__" and one or more word characters
IdTokens ==
  { <<"_","_">> \o w : w \in UNION { [1..n -> {"a", "Z", "7", "_"}] : n \in 1..MaxTokenLen } }

\* a catalog, the position of one of its records, and what a build tool
\* appended to that record's family name
FindInDatabaseArgs ==
  { <<db, i, suffix>> \in {DB_SMALL, DB_FULL, DB_PREFIXES} \X (1..7)
                          \X (HexSuffixes \cup IdTokens) :
      i <= Len(db) }

CallFindInDatabase ==
  Call("findInDatabase",
       findInDatabase(args.in[1][args.in[2]].family \o args.in[3], args.in[1]))

CallFindNameOverride == Call("findNameOverride", findNameOverride(args.in))

InitNames ==
  /\ ServiceIdle
  /\ BuilderIdle
  /\ result = <<>>
  /\ args \in [fn : {"findNameOverride"}, in : SpelledHelveticaNeue]
         \cup [fn : {"findInDatabase"}, in : FindInDatabaseArgs]

NextNames == CallFindNameOverride \/ CallFindInDatabase

SpecNames == InitNames /\ [][NextNames]_vars

CallExtractFeatures == Call("extractFeatures", extractFeatures(args.in))

InitExtract ==
  /\ ServiceIdle
  /\ BuilderIdle
  /\ result = <<>>
  /\ args \in [fn : {"extractFeatures"}, in : Fonts]

NextExtract == CallExtractFeatures

\* the extractor applied to one font
SpecExtract == InitExtract /\ [][NextExtract]_vars

(***************************************************************************)
(* The catalog builder: main()                                             *)
(***************************************************************************)

\* what the runs so far have pushed into results, once this run has ended
Ended ==
  [history EXCEPT !.completed = @ \cup familiesOf(build.results),
                  !.attempts = 0, !.inFlight = 0, !.slept = 0]

\* StartBuild that fills processed from the checkpoint file and leaves
\* results empty
StartBuild_resultsNotLoaded(listed) ==
  /\ build.pc = "off"
  /\ history.runs < MaxRuns
  /\ LET loaded == IF disk.progress.exists /\ disk.progress.valid
                     THEN disk.progress.entries ELSE <<>>
     IN  build' = IF listed
                    THEN [pc |-> "loop", i |-> 1, results |-> <<>>,
                          processed |-> familiesOf(loaded),
                          succeeded |-> 0, failed |-> 0]
                    ELSE Off
  /\ history' = [history EXCEPT !.runs = @ + 1, !.attempts = 0,
                                !.inFlight = 0, !.slept = 0]
  /\ UNCHANGED <<fontList, disk, serviceVars, crawl>>

\* lines 88-108: the list is fetched and the checkpoint file, when there
\* is one that parses, becomes results and processed.  When the list
\* cannot be fetched main rejects and the process exits.
StartBuild(listed) ==
  /\ build.pc = "off"
  /\ history.runs < MaxRuns
  /\ LET loaded == IF disk.progress.exists /\ disk.progress.valid
                     THEN disk.progress.entries ELSE <<>>
     IN  build' = IF listed
                    THEN [pc |-> "loop", i |-> 1, results |-> loaded,
                          processed |-> familiesOf(loaded),
                          succeeded |-> Len(loaded), failed |-> 0]
                    ELSE Off
  /\ history' = [history EXCEPT !.runs = @ + 1, !.attempts = 0,
                                !.inFlight = 0, !.slept = 0]
  /\ UNCHANGED <<fontList, disk, serviceVars, crawl>>

\* lines 110-126: one turn of the loop up to the download
Iterate ==
  /\ build.pc = "loop"
  /\ build.i <= Len(fontList)
  /\ LET font == fontList[build.i]
     IN  /\ build' = IF font.family \in build.processed
                       THEN [build EXCEPT !.i = @ + 1]
                     ELSE IF font.fileUrl = ""
                       THEN [build EXCEPT !.failed = @ + 1, !.i = @ + 1]
                     ELSE [build EXCEPT !.pc = "downloading"]
         /\ history' = IF build'.pc = "downloading"
                         THEN [history EXCEPT !.attempts = @ + 1,
                                              !.inFlight = @ + 1]
                         ELSE history
  /\ UNCHANGED <<fontList, disk, serviceVars, crawl>>

\* DownloadDone without failed++ after a file that does not parse
DownloadDone_parseFailureUncounted ==
  /\ build.pc = "downloading"
  /\ LET font == fontList[build.i]
         pushed == Append(build.results,
                          Entry(font.family, font.category, font.features[1]))
     IN  IF ~font.downloads
           THEN /\ build' = [build EXCEPT !.failed = @ + 1, !.pc = "sleeping"]
                /\ UNCHANGED disk
         ELSE IF font.features = <<>>
           THEN /\ build' = [build EXCEPT !.pc = "sleeping"]
                /\ UNCHANGED disk
           ELSE /\ build' = [build EXCEPT !.results = pushed,
                                          !.succeeded = @ + 1,
                                          !.pc = "sleeping"]
                /\ disk' = IF (build.succeeded + 1) % CHECKPOINT_EVERY = 0
                             THEN [disk EXCEPT !.progress = Written(pushed)]
                             ELSE disk
  /\ history' = [history EXCEPT !.inFlight = @ - 1, !.slept = 0]
  /\ UNCHANGED <<fontList, serviceVars, crawl>>

\* DownloadDone with the checkpoint written before the push
DownloadDone_checkpointBeforePush ==
  /\ build.pc = "downloading"
  /\ LET font == fontList[build.i]
         pushed == Append(build.results,
                          Entry(font.family, font.category, font.features[1]))
     IN  IF ~font.downloads \/ font.features = <<>>
           THEN /\ build' = [build EXCEPT !.failed = @ + 1, !.pc = "sleeping"]
                /\ UNCHANGED disk
           ELSE /\ build' = [build EXCEPT !.results = pushed,
                                          !.succeeded = @ + 1,
                                          !.pc = "sleeping"]
                /\ disk' = IF (build.succeeded + 1) % CHECKPOINT_EVERY = 0
                             THEN [disk EXCEPT
                                     !.progress = Written(build.results)]
                             ELSE disk
  /\ history' = [history EXCEPT !.inFlight = @ - 1, !.slept = 0]
  /\ UNCHANGED <<fontList, serviceVars, crawl>>

\* lines 126-156: the download has ended; the entry is pushed and, every
\* CHECKPOINT_EVERY successes, the checkpoint file is written
DownloadDone ==
  /\ build.pc = "downloading"
  /\ LET font == fontList[build.i]
         pushed == Append(build.results,
                          Entry(font.family, font.category, font.features[1]))
     IN  IF ~font.downloads \/ font.features = <<>>
           THEN /\ build' = [build EXCEPT !.failed = @ + 1, !.pc = "sleeping"]
                /\ UNCHANGED disk
           ELSE /\ build' = [build EXCEPT !.results = pushed,
                                          !.succeeded = @ + 1,
                                          !.pc = "sleeping"]
                /\ disk' = IF (build.succeeded + 1) % CHECKPOINT_EVERY = 0
                             THEN [disk EXCEPT !.progress = Written(pushed)]
                             ELSE disk
  /\ history' = [history EXCEPT !.inFlight = @ - 1, !.slept = 0]
  /\ UNCHANGED <<fontList, serviceVars, crawl>>

\* Wake after sleep(0)
Wake_noDelay ==
  /\ build.pc = "sleeping"
  /\ build' = [build EXCEPT !.pc = "loop", !.i = @ + 1]
  /\ UNCHANGED <<fontList, disk, history, serviceVars, crawl>>

\* lines 130, 138, 156: sleep(DELAY_MS) has ended
Wake ==
  /\ build.pc = "sleeping"
  /\ build' = [build EXCEPT !.pc = "loop", !.i = @ + 1]
  /\ history' = [history EXCEPT !.slept = @ + DELAY_MS]
  /\ UNCHANGED <<fontList, disk, serviceVars, crawl>>

\* WriteOutput with the write of line 160 put off
WriteOutput_notWritten ==
  /\ build.pc = "loop"
  /\ build.i > Len(fontList)
  /\ build' = [build EXCEPT !.pc = "cleanup"]
  /\ UNCHANGED <<fontList, disk, history, serviceVars, crawl>>

\* line 160: the loop is over and the output file is written
WriteOutput ==
  /\ build.pc = "loop"
  /\ build.i > Len(fontList)
  /\ disk' = [disk EXCEPT !.output = Written(build.results)]
  /\ build' = [build EXCEPT !.pc = "cleanup"]
  /\ UNCHANGED <<fontList, history, serviceVars, crawl>>

\* lines 163-165: the checkpoint file is removed and main returns
RemoveProgress ==
  /\ build.pc = "cleanup"
  /\ disk' = [disk EXCEPT !.progress = NoFile]
  /\ build' = Off
  /\ history' = Ended
  /\ UNCHANGED <<fontList, serviceVars, crawl>>

\* the process is killed between two steps
Interrupt ==
  /\ build.pc # "off"
  /\ build' = Off
  /\ history' = Ended
  /\ UNCHANGED <<fontList, disk, serviceVars, crawl>>

\* the process is killed while line 152 writes the checkpoint file
InterruptInCheckpoint ==
  /\ build.pc = "downloading"
  /\ LET font == fontList[build.i]
     IN  /\ font.downloads /\ font.features # <<>>
         /\ (build.succeeded + 1) % CHECKPOINT_EVERY = 0
         /\ history' = [history EXCEPT
                          !.completed = @ \cup familiesOf(build.results)
                                          \cup {font.family},
                          !.attempts = 0, !.inFlight = 0, !.slept = 0]
  /\ disk' = [disk EXCEPT !.progress = Truncated]
  /\ build' = Off
  /\ UNCHANGED <<fontList, serviceVars, crawl>>

InitBuild ==
  /\ ServiceIdle
  /\ args = NoCall
  /\ result = <<>>
  /\ fontList \in FontLists
  /\ build = Off
  /\ disk = [progress |-> NoFile, output |-> NoFile]
  /\ history = NoHistory
  /\ crawl = NoCrawl

NextBuild ==
  \/ \E listed \in BOOLEAN : StartBuild(listed)
  \/ Iterate
  \/ DownloadDone
  \/ Wake
  \/ WriteOutput
  \/ RemoveProgress
  \/ Interrupt
  \/ InterruptInCheckpoint

\* runs of the builder over one list of fonts, one after the other
SpecBuild == InitBuild /\ [][NextBuild]_vars

\* the same runs, where a process that is not killed takes its next step:
\* every download and every sleep ends
SpecBuildFair ==
  /\ InitBuild
  /\ [][NextBuild]_vars
  /\ WF_vars(Iterate)
  /\ WF_vars(DownloadDone)
  /\ WF_vars(Wake)
  /\ WF_vars(WriteOutput)
  /\ WF_vars(RemoveProgress)

\* an outline of n commands, n >= 1
Probe(n) == IF n = 1 THEN <<Cmd("M", 0, 0)>> ELSE Outline(0, n - 2)

\* a font that has the glyphs of I, l and T only, with outlines of the
\* given numbers of commands; 0 stands for a glyph that is not resolved
ProbeFont(counts) ==
  Font(1000, <<>>, <<>>, <<0, 0>>,
       [c \in {SERIF_TEST_CHARS[k] : k \in {k \in 1..3 : counts[k] > 0}} |->
          LET k == CHOOSE k \in 1..3 : SERIF_TEST_CHARS[k] = c
          IN  [index |-> k, throws |-> FALSE, commands |-> Probe(counts[k]),
               advanceWidth |-> 500, y2 |-> 700]])

CallAnalyzeGlyphs ==
  Call("analyzeGlyphs", analyzeGlyphs(ProbeFont(args.in), 1000))

InitSerif ==
  /\ ServiceIdle
  /\ BuilderIdle
  /\ result = <<>>
  /\ args \in [fn : {"analyzeGlyphs"},
               in : (0..MaxCmdCount) \X (0..MaxCmdCount) \X (0..MaxCmdCount)]

NextSerif == CallAnalyzeGlyphs

\* the glyph analysis applied to one font with probe glyphs
SpecSerif == InitSerif /\ [][NextSerif]_vars

(***************************************************************************)
(* The extraction handler: traversal of the stylesheets                    *)
(***************************************************************************)

\* every call made so far has returned
allReturned == \A t \in 1..Len(crawl.calls) : crawl.calls[t].pc = "returned"

\* lines 760-774 and 811-815: the handler starts the calls for the next
\* list of URLs once Promise.all of the list before has resolved
NextBatch ==
  /\ crawl.batch < Len(crawl.site.batches)
  /\ allReturned
  /\ crawl' = mapFetchAndParseCSS([crawl EXCEPT !.batch = @ + 1],
                                  crawl.site.batches[crawl.batch + 1], 0, 0)
  /\ UNCHANGED <<serviceVars, builderVars>>

\* lines 658-666: the response of call t has come.  Without a stylesheet
\* the call returns; with one it calls itself for every import.
CssFetched(t) ==
  /\ t \in 1..Len(crawl.calls)
  /\ crawl.calls[t].pc = "fetching"
  /\ LET call == crawl.calls[t]
     IN  crawl' =
           IF call.url \in crawl.site.broken
             THEN [crawl EXCEPT !.calls[t].pc = "returned"]
             ELSE mapFetchAndParseCSS([crawl EXCEPT !.calls[t].pc = "waiting"],
                                      crawl.site.imports[call.url],
                                      call.depth + 1, t)
  /\ UNCHANGED <<serviceVars, builderVars>>

\* lines 666-667: Promise.all of the calls for the imports has resolved
CssReturn(t) ==
  /\ t \in 1..Len(crawl.calls)
  /\ crawl.calls[t].pc = "waiting"
  /\ \A c \in 1..Len(crawl.calls) :
       crawl.calls[c].parent = t => crawl.calls[c].pc = "returned"
  /\ crawl' = [crawl EXCEPT !.calls[t].pc = "returned"]
  /\ UNCHANGED <<serviceVars, builderVars>>

MaxCalls == 6

InitCss ==
  /\ ServiceIdle
  /\ args = NoCall
  /\ result = <<>>
  /\ fontList = <<>>
  /\ build = Off
  /\ disk = [progress |-> NoFile, output |-> NoFile]
  /\ history = NoHistory
  /\ crawl \in {[NoCrawl EXCEPT !.site = site] : site \in Sites}

NextCss ==
  \/ NextBatch
  \/ \E t \in 1..MaxCalls : CssFetched(t)
  \/ \E t \in 1..MaxCalls : CssReturn(t)

\* one extraction request; every request that was sent gets its response
SpecCss == InitCss /\ [][NextCss]_vars /\ WF_vars(NextCss)

(***************************************************************************)
(* Properties of the catalog cache and of the matcher                      *)
(***************************************************************************)
Slots == 1..MaxReq

Answered(r) == req[r].pc = "done"

\* the catalog file is missing, is not JSON or holds the empty list
CatalogUnavailable == file.state # "ok" \/ file.entries = <<>>

IsNoDatabase(response) ==
  /\ response.status = 200
  /\ response.method = "no-database"
  /\ response.error = "Font feature database not built yet. Run: npm run build:features"
  /\ response.alternatives = <<>>

\* C1, as claimed: with the catalog unavailable, every request with a
\* non-empty declared family is answered 'no-database' with the error that
\* tells the caller to build the catalog, whatever the family.
C1_NoDatabaseForEveryFamily ==
  \A r \in Slots :
    Answered(r) /\ req[r].family # <<>> /\ CatalogUnavailable
      => IsNoDatabase(req[r].response)

\* C1, amended: with the catalog unavailable, a request with a non-empty
\* declared family is answered 'no-database' with the build instruction
\* whenever the curated lookup finds nothing for the artefact-stripped name.
C1_NoDatabaseUnlessOverride ==
  \A r \in Slots :
    /\ Answered(r)
    /\ req[r].family # <<>>
    /\ CatalogUnavailable
    /\ findNameOverride(cleanFamilyName(req[r].family)) = NoOverride
    => IsNoDatabase(req[r].response)

\* a request for a family without override, with a url, answered while the
\* catalog file cannot be parsed
C1_Witness ==
  \E r \in Slots :
    /\ Answered(r)
    /\ req[r].family = N_FiraCode
    /\ req[r].url # ""
    /\ file.state = "invalid"
    /\ IsNoDatabase(req[r].response)

\* C2, as claimed, for a catalog file that can be loaded: however the
\* requests interleave, the file is read and parsed at most once in the life
\* of the process.
C2_ReadAtMostOnce == file.state = "ok" => readCount <= 1

\* every read that was started has settled, and none could load the catalog
LoadFailed ==
  /\ file.state # "ok"
  /\ readCount > 0
  /\ \A r \in Slots : req[r].pc # "reading"

\* C3, as claimed: once a load of the catalog has failed, no later call of
\* getDatabase reads the file again.
C3_FailedLoadIsCached == [][LoadFailed => readCount' = readCount]_vars

\* the strategies of the cascade, as they apply to the request of slot r
exactMatchOf(r) == findInDatabase(req[r].family, req[r].database)

lookupNameOf(r) ==
  IF exactMatchOf(r) # 0 THEN req[r].database[exactMatchOf(r)].family
  ELSE cleanFamilyName(req[r].family)

OverrideYields(r) == findNameOverride(lookupNameOf(r)).kind = "list"

CatalogYields(r) == exactMatchOf(r) # 0

FeatureYields(r) == Len(req[r].database) > 0 /\ req[r].fetched.kind = "decoded"

Returned(fn) == args.fn = fn /\ result # <<>>

norm(family) == trim(toLowerCase(family))

\* C5: findSimilar returns no record whose family, lower-cased and trimmed,
\* equals the lower-cased and trimmed excluded family.
C5_ExcludedNeverReturned ==
  Returned("findSimilar") =>
    \A i \in 1..Len(result[1]) : norm(result[1][i].family) # norm(args.in[4])

\* three of the four records of a catalog are spellings of the excluded
\* family and only the fourth is returned
C5_Witness ==
  /\ Returned("findSimilar")
  /\ args.in[2] = DB_CASES
  /\ args.in[3] = 4
  /\ args.in[4] = <<" ","I","n","T","e","R","\t">>
  /\ Len(result[1]) = 1
  /\ result[1][1].family = F_Lora

\* C6: the list returned by findSimilar is ordered by non-decreasing
\* distance to the query.
C6_SortedByDistance ==
  Returned("findSimilar") =>
    \A i \in 1..Len(result[1]) - 1 :
      result[1][i].distance <= result[1][i + 1].distance

\* a result of three records or more whose nearest record is not the first
\* record of the catalog
C6_Witness ==
  /\ Returned("findSimilar")
  /\ Len(result[1]) >= 3
  /\ result[1][1].family # args.in[2][1].family
  /\ result[1][1].distance < result[1][2].distance

\* C7: featureDistance(a, a) = 0 and featureDistance(a, b) = featureDistance(b, a).
C7_ZeroOnSelfAndSymmetric ==
  Returned("featureDistance") =>
    /\ result[1].aa = 0
    /\ result[1].ab = result[1].ba

\* two vectors that differ in several dimensions, at a positive distance
C7_Witness ==
  /\ Returned("featureDistance")
  /\ args.in = <<V_Sans, V_Script>>
  /\ result[1].ab > 0

\* the dimensions in which two vectors differ
DiffDims(a, b) == {k \in 1..FEATURE_COUNT : a[k] # b[k]}

\* the distance of two vectors that differ in isMonospace only, 0 against 1
MonoMismatch(a) ==
  featureDistance(With(a, MONO, 0), With(a, MONO, FEATURE_MAX[MONO]))

AVG == CHOOSE i \in 1..FEATURE_COUNT : FEATURE_NAMES[i] = "avgWidthRatio"

C9_StrictlyDecreasing ==
  Returned("distanceToSimilarity") =>
    /\ args.in[1] = 0 => result[1][1] = 100
    /\ args.in[1] < args.in[2] => result[1][1] > result[1][2]

\* C9, amended: distanceToSimilarity(0) = 100, and of two distances the
\* smaller never has the smaller score.
C9_NeverIncreasing ==
  Returned("distanceToSimilarity") =>
    /\ args.in[1] = 0 => result[1][1] = 100
    /\ args.in[1] < args.in[2] => result[1][1] >= result[1][2]

\* distance 0 scored 100 next to a positive distance scored less
C9_Witness ==
  /\ Returned("distanceToSimilarity")
  /\ args.in[1] = 0
  /\ result[1][1] = 100
  /\ result[1][2] < 100

\* C10: every spelling of "Helvetica Neue" gets the list stored under
\* 'helvetica neue': Inter, DM Sans, Public Sans, Roboto, Source Sans 3, in
\* that order, and not the list stored under 'helvetica'.
C10_HelveticaNeueList ==
  Returned("findNameOverride") /\ args.in \in SpelledHelveticaNeue =>
    /\ result[1].kind = "list"
    /\ [i \in 1..Len(result[1].alts) |-> result[1].alts[i].family]
         = <<F_Inter, F_DMSans, F_PublicSans, F_Roboto, F_SourceSans3>>
    /\ result[1].alts[2].reason = "Slightly geometric, very clean"
    /\ result[1] # findNameOverride(K_helvetica)

\* an upper-case spelling with a hyphen and a tab between the words
C10_Witness ==
  /\ Returned("findNameOverride")
  /\ args.in = <<"H","E","L","V","E","T","I","C","A","-","\t","N","E","U","E">>
  /\ result[1].kind = "list"
  /\ Len(result[1].alts) = 5

\* C11: a declared family made of a catalog family name followed by '-' and
\* six or more hexadecimal digits, or by a "__" token, is looked up to the
\* record of that family, when no record has the full declared name.
C11_SuffixedNameFindsBase ==
  Returned("findInDatabase") =>
    LET database == args.in[1]
        base     == database[args.in[2]].family
        declared == base \o args.in[3]
    IN  (\A i \in 1..Len(database) : norm(database[i].family) # norm(declared))
          => /\ result[1] # 0
             /\ database[result[1]].family = base

\* "Roboto Mono-FFFFFF" in a catalog that lists Roboto ahead of Roboto Mono
C11_Witness ==
  /\ Returned("findInDatabase")
  /\ args.in = <<DB_PREFIXES, 2, <<"-","F","F","F","F","F","F">> >>
  /\ result[1] = 2

(***************************************************************************)
(* Properties of the responses of the matcher                              *)
(***************************************************************************)
\* the position of the catalog record with the declared family's own name
verbatimOf(r) ==
  First({i \in 1..Len(req[r].database) :
           norm(req[r].database[i].family) = norm(req[r].family)})

curatedOf(r) ==
  LET alts == findNameOverride(lookupNameOf(r)).alts
  IN  [i \in 1..Len(alts) |-> Alt(alts[i].family, "", 95, alts[i].reason)]

\* C12, as claimed: a name-override response lists the curated alternatives
\* in table order, behind a 100% "already free" entry exactly when the
\* declared family is, ignoring case, the name of a catalog record.
C12_FreeEntryOnlyForCatalogFamily ==
  \A r \in Slots :
    Answered(r) /\ req[r].response.method = "name-override" =>
      req[r].response.alternatives =
        IF verbatimOf(r) # 0
          THEN <<Alt(req[r].database[verbatimOf(r)].family, "", 100, FreeOnGoogle)>>
               \o curatedOf(r)
          ELSE curatedOf(r)

\* C13: an 'exact-match' response starts with the catalog record the name
\* lookup found, at similarity 100; at most four neighbours follow, none of
\* them bears the name of that record, and there are neighbours only when
\* the font bytes were fetched and decoded.
C13_ExactMatchShape ==
  \A r \in Slots :
    Answered(r) /\ req[r].response.method = "exact-match" =>
      LET alts  == req[r].response.alternatives
          found == exactMatchOf(r)
      IN  /\ found # 0
          /\ Len(alts) >= 1
          /\ alts[1].family = req[r].database[found].family
          /\ alts[1].category = req[r].database[found].category
          /\ alts[1].similarity = 100
          /\ Len(alts) <= 1 + 4
          /\ \A i \in 2..Len(alts) : norm(alts[i].family) # norm(alts[1].family)
          /\ Len(alts) > 1 => req[r].fetched.kind = "decoded"

\* Inter, found in the large catalog, with four neighbours of the decoded
\* sans-serif query font, which is at distance 0 from the Inter record
C13_Witness ==
  \E r \in Slots :
    /\ Answered(r)
    /\ req[r].response.method = "exact-match"
    /\ req[r].family = F_Inter
    /\ req[r].fetched.kind = "decoded"
    /\ req[r].fetched.features = V_Sans
    /\ Len(req[r].response.alternatives) = 5

MonoKeywords ==
  { <<"m","o","n","o">>, <<"c","o","d","e">>, <<"c","o","u","r","i","e","r">>,
    <<"c","o","n","s","o","l","a","s">>, <<"m","e","n","l","o">>,
    <<"t","e","r","m","i","n","a","l">> }

ScriptKeywords ==
  { <<"s","c","r","i","p","t">>, <<"c","u","r","s","i","v","e">>,
    <<"h","a","n","d","w","r","i","t">>, <<"b","r","u","s","h">>,
    <<"c","a","l","l","i","g">> }

Has(name, words) == \E w \in words : includes(toLowerCase(name), w)

\* the category read off a name: monospace keywords first, then "serif"
\* without "sans", then "sans", then the script keywords; "" for none
InferredCategory(name) ==
  CASE Has(name, MonoKeywords) -> "monospace"
    [] ~Has(name, MonoKeywords) /\ Has(name, {<<"s","e","r","i","f">>})
         /\ ~Has(name, {<<"s","a","n","s">>}) -> "serif"
    [] ~Has(name, MonoKeywords) /\ Has(name, {<<"s","a","n","s">>}) -> "sans-serif"
    [] OTHER -> IF Has(name, ScriptKeywords) THEN "handwriting" ELSE ""

\* the records of a catalog that a category-fallback response must list for
\* a name: the first five of the inferred category, or of the whole catalog
FallbackFor(name, database) ==
  LET c    == InferredCategory(name)
      rows == IF c = "" THEN database
              ELSE SelectSeq(database, LAMBDA e : e.category = c)
  IN  [i \in 1..(IF Len(rows) < 5 THEN Len(rows) ELSE 5) |->
         [family |-> rows[i].family, category |-> rows[i].category,
          similarity |-> 50]]

Listed(response) ==
  [i \in 1..Len(response.alternatives) |->
     [family |-> response.alternatives[i].family,
      category |-> response.alternatives[i].category,
      similarity |-> response.alternatives[i].similarity]]

\* C14, as claimed: a 'category-fallback' response lists, at similarity 50,
\* the first min(5, n) records in catalog order of the category inferred
\* from the declared name, or of the whole catalog when no keyword matches.
C14_FallbackByDeclaredName ==
  \A r \in Slots :
    Answered(r) /\ req[r].response.method = "category-fallback" =>
      Listed(req[r].response) = FallbackFor(req[r].family, req[r].database)

\* C14, amended: the category is inferred from the declared name after its
\* build-artefact suffix has been stripped.
C14_FallbackByCleanedName ==
  \A r \in Slots :
    Answered(r) /\ req[r].response.method = "category-fallback" =>
      Listed(req[r].response) =
        FallbackFor(cleanFamilyName(req[r].family), req[r].database)

\* "Noto Sans Mono" holds a monospace keyword and "sans": it is answered with
\* the one monospace record of the large catalog
C14_Witness ==
  \E r \in Slots :
    /\ Answered(r)
    /\ req[r].response.method = "category-fallback"
    /\ req[r].family = N_NotoSansMono
    /\ Len(req[r].response.alternatives) = 1
    /\ req[r].response.alternatives[1].family = F_RobotoMono
    /\ req[r].response.alternatives[1].similarity = 50

\* opentype.js, behind the decompressor where the bytes are WOFF2, gets no
\* font out of the buffer
Undecodable(buffer) ==
  \/ buffer.byteLength < 4
  \/ buffer.signature = WOFF2_SIGNATURE /\ ~buffer.inflates
  \/ ~buffer.parses

Received(r) == req[r].fetched.kind \in {"undecodable", "decoded"}

\* C15: for a fetched buffer that cannot be decoded, parseFontBuffer and
\* extractFeaturesFromBuffer return null and throw nothing, and the request
\* is answered with status 200 by name alone: exact-match without
\* neighbours, no-database or category-fallback.
C15_UndecodableEndsNameOnly ==
  \A r \in Slots :
    Answered(r) /\ Received(r) /\ Undecodable(req[r].fetched.buffer) =>
      /\ parseFontBuffer(req[r].fetched.buffer) = Null
      /\ extractFeaturesFromBuffer(req[r].fetched.buffer) = Null
      /\ req[r].response.status = 200
      /\ req[r].response.features = <<>>
      /\ \/ /\ req[r].response.method = "exact-match"
            /\ Len(req[r].response.alternatives) = 1
         \/ req[r].response.method \in {"no-database", "category-fallback"}

\* a body of three bytes fetched for a family that is not in the catalog
C15_Witness ==
  \E r \in Slots :
    /\ Answered(r)
    /\ Received(r)
    /\ req[r].fetched.buffer.byteLength = 3
    /\ req[r].family = N_Acme
    /\ req[r].response.method = "category-fallback"

\* C16: with a loaded, non-empty catalog, a request whose family has no
\* curated override and no catalog hit, and whose fetch throws or is
\* answered non-OK, gets a 'category-fallback' response with status 200 and
\* no sign of the fetch error.
C16_FetchFailureFallsBack ==
  \A r \in Slots :
    /\ Answered(r)
    /\ Len(req[r].database) > 0
    /\ findNameOverride(lookupNameOf(r)) = NoOverride
    /\ exactMatchOf(r) = 0
    /\ req[r].fetched.kind \in {"throws", "notOk"}
    => /\ req[r].response.status = 200
       /\ req[r].response.method = "category-fallback"
       /\ req[r].response.error = ""

\* the fetch for "Fira Code" throws; the one monospace record is listed
C16_Witness ==
  \E r \in Slots :
    /\ Answered(r)
    /\ req[r].family = N_FiraCode
    /\ req[r].database = DB_FULL
    /\ req[r].fetched.kind = "throws"
    /\ req[r].response.method = "category-fallback"
    /\ Len(req[r].response.alternatives) = 1

\* C17, as claimed: a match request that waits for the font bytes is answered
\* sooner or later, also when the fetch never completes.
C17_WaitingRequestAnswered == req[1].pc = "fetching" ~> req[1].pc = "done"

RangeEnd(name) ==
  CASE name = "ascenderRatio" -> UNIT + UNIT \div 2
    [] name = "descenderRatio" -> UNIT \div 2
    [] name = "avgWidthRatio" -> 2 * UNIT
    [] OTHER -> UNIT

\* C19: extractFeatures returns fifteen numbers, one per name of
\* FEATURE_NAMES and in that order, each within the range of its name, and
\* isMonospace is 0 or 1; also for fonts without tables or glyphs.
C19_FifteenFeaturesInRange ==
  Returned("extractFeatures") =>
    /\ Len(result[1]) = 15
    /\ Len(FEATURE_NAMES) = 15
    /\ \A i \in 1..Len(result[1]) :
         /\ result[1][i] \in Int
         /\ 0 <= result[1][i]
         /\ result[1][i] <= RangeEnd(FEATURE_NAMES[i])
         /\ FEATURE_NAMES[i] = "isMonospace" => result[1][i] \in {0, UNIT}

\* a font of 16 units per em without glyphs whose OS/2 fields hold their
\* largest values: the three wide ranges are reached at their upper ends
C19_Witness ==
  /\ Returned("extractFeatures")
  /\ args.in = Font(16, <<OS2_Max>>, <<>>, <<0, 0>>, G_None)
  /\ result[1][5] = UNIT + UNIT \div 2
  /\ result[1][6] = UNIT \div 2
  /\ result[1][7] = 2 * UNIT
  /\ result[1][11] = UNIT

\* the next family the running builder is about to download or is downloading
downloading == build.pc = "downloading"

\* C20: a run of the builder never downloads a family that an earlier run
\* pushed into its results.
C20_CompletedFamilyNotDownloadedAgain ==
  downloading => fontList[build.i].family \notin history.completed


\* the ranks of the list the loop of the running builder is done with
visited ==
  IF build.pc = "sleeping" THEN 1..build.i ELSE 1..(build.i - 1)

\* the family at rank k was not in the checkpoint this run started from
unprocessed(k) == fontList[k].family \notin build.processed

\* the family at rank k has a file that downloads and parses
succeeds(k) ==
  /\ fontList[k].fileUrl # ""
  /\ fontList[k].downloads
  /\ fontList[k].features # <<>>

RECURSIVE gathered(_)
\* the records of the unprocessed families of ranks 1..n that succeed
gathered(n) ==
  IF n = 0 THEN <<>>
  ELSE IF n \in visited /\ unprocessed(n) /\ succeeds(n)
    THEN Append(gathered(n - 1),
                Entry(fontList[n].family, fontList[n].category,
                      fontList[n].features[1]))
    ELSE gathered(n - 1)

\* what a running builder has counted and gathered agrees with the fonts
\* it is done with
countsAgree ==
  build.pc # "off" =>
    /\ build.succeeded = Len(build.results)
    /\ build.failed =
         Cardinality({k \in visited : unprocessed(k) /\ ~succeeds(k)})
    /\ SubSeq(build.results, Cardinality(build.processed) + 1,
              Len(build.results)) = gathered(Len(fontList))
    /\ build.pc = "cleanup" =>
         /\ visited = 1..Len(fontList)
         /\ disk.output = Written(build.results)

\* C21: whatever fonts fail, a run that is not killed goes through the list
\* in order and ends by writing the output file; each failure adds one to
\* failed and no record, so that at the end failed is the number of
\* unprocessed families without a record and succeeded is the number of
\* records written.
C21_FailuresCountedBatchContinues ==
  /\ []countsAgree
  /\ (build.pc = "loop") ~> (build.pc = "cleanup" \/ build.pc = "off")

\* a run over the longest rough list has written the output file
C21_Witness ==
  /\ build.pc = "cleanup"
  /\ Len(fontList) = MaxFonts
  /\ build.failed > 2
  /\ build.succeeded > 0
  /\ build.succeeded = Len(disk.output.entries)


\* C22: the step that ends a complete run removes the checkpoint file while
\* the output file already holds all results; a step that changes the
\* output file is taken at the end of the list only, so that a run killed
\* before leaves the output file as it was.
C22_OutputWrittenThenCheckpointRemoved ==
  [][ /\ RemoveProgress =>
           /\ disk.output = Written(build.results)
           /\ disk'.output = disk.output
           /\ disk'.progress = NoFile
      /\ disk'.output # disk.output =>
           /\ build.pc = "loop"
           /\ build.i > Len(fontList)
           /\ disk'.output = Written(build.results)
      /\ Interrupt => disk' = disk ]_vars

\* a run has ended normally after it had written a checkpoint
C22_Witness ==
  /\ build.pc = "off"
  /\ history.runs = 1
  /\ disk.output.exists
  /\ Len(disk.output.entries) >= CHECKPOINT_EVERY
  /\ ~disk.progress.exists


\* the list short is the beginning of the list long
isPrefix(short, long) ==
  /\ Len(short) <= Len(long)
  /\ SubSeq(long, 1, Len(short)) = short

\* the entries a process would load from the checkpoint file as it is
persisted ==
  IF disk.progress.exists /\ disk.progress.valid
    THEN disk.progress.entries ELSE <<>>

\* a running builder holds the persisted entries and fewer than
\* CHECKPOINT_EVERY more
checkpointCovers ==
  build.pc # "off" =>
    /\ isPrefix(persisted, build.results)
    /\ Len(build.results) - Len(persisted) < CHECKPOINT_EVERY

\* a step of the running builder pushes a record
pushes ==
  /\ build.pc = "downloading"
  /\ build'.pc = "sleeping"
  /\ build'.succeeded = build.succeeded + 1

\* C23: a step of a run writes the checkpoint file exactly when it pushes
\* the record that makes succeeded (the records loaded from the checkpoint
\* plus those pushed by this run) a multiple of 50, and writes all results;
\* so the checkpoint file a running builder would load is a prefix of its
\* results and fewer than 50 records are not in it.
C23_CheckpointEveryFiftySuccesses ==
  /\ []checkpointCovers
  /\ [][ build'.pc # "off" =>
           /\ build.pc = "off" => disk'.progress = disk.progress
           /\ disk'.progress # disk.progress =>
                /\ pushes
                /\ build'.succeeded % CHECKPOINT_EVERY = 0
                /\ disk'.progress = Written(build'.results)
           /\ (pushes /\ build'.succeeded % CHECKPOINT_EVERY = 0) =>
                disk'.progress = Written(build'.results) ]_vars

\* a resumed run has written the checkpoint of its hundredth record
C23_Witness ==
  /\ build.pc = "sleeping"
  /\ Cardinality(build.processed) = CHECKPOINT_EVERY
  /\ build.succeeded = 2 * CHECKPOINT_EVERY
  /\ disk.progress = Written(build.results)


\* C24: a running builder has at most one download in flight, and when it
\* begins a download that is not its first, DELAY_MS have been slept since
\* the download before ended, however that one ended.
C24_OneDownloadThenDelay ==
  /\ history.inFlight <= 1
  /\ (build.pc = "downloading") = (history.inFlight = 1)
  /\ (build.pc = "downloading" /\ history.attempts > 1) =>
       history.slept >= DELAY_MS

\* downloads follow a success, a failed download and a file that does not
\* parse: ranks 4 to 8 of a rough list
C24_Witness ==
  /\ build.pc = "downloading"
  /\ build.i = 8
  /\ fontList[6].features = <<>>
  /\ ~fontList[4].downloads
  /\ history.attempts = 7
  /\ history.slept = DELAY_MS


\* the test characters whose glyph exists and has an outline, as a list
sampled(font) ==
  SelectSeq(ALL_TEST_CHARS,
            LAMBDA c : /\ ~charToGlyph(font, c).throws
                       /\ charToGlyph(font, c).index # 0
                       /\ charToGlyph(font, c).commands # <<>>)

\* the advance widths collected from them: those that are not 0
collected(font) ==
  SelectSeq([i \in 1..Len(sampled(font)) |->
               charToGlyph(font, sampled(font)[i]).advanceWidth],
            LAMBDA w : w # 0)

promoted(response) ==
  /\ response.method = "feature-similarity"
  /\ Len(response.alternatives) >= 1
  /\ Len(response.alternatives) <= 1 + 4
  /\ response.alternatives[1].similarity = 100
  /\ response.alternatives[1].reason = FreeOnGoogle

\* the catalog record nearest to the features of the fetched font, among
\* those findSimilar compares
nearestOf(r) ==
  findSimilar(req[r].fetched.features, req[r].database, 6,
              cleanFamilyName(req[r].family))

RECURSIVE uninterrupted(_)
\* what one run that is not killed gathers from the fonts of ranks 1..n,
\* starting without a checkpoint file
uninterrupted(n) ==
  IF n = 0 THEN <<>>
  ELSE IF succeeds(n)
    THEN Append(uninterrupted(n - 1),
                Entry(fontList[n].family, fontList[n].category,
                      fontList[n].features[1]))
    ELSE uninterrupted(n - 1)

\* C27: the output file, whenever it is written, holds what one run that
\* is not killed gathers from the list, also when the run that wrote it
\* resumed from the checkpoint of a run that was killed; no family is in it
\* twice.
C27_ResumedRunSameCatalog ==
  disk.output.exists =>
    /\ disk.output.entries = uninterrupted(Len(fontList))
    /\ \A j, k \in 1..Len(disk.output.entries) :
         disk.output.entries[j].family = disk.output.entries[k].family => j = k

\* the second run resumed from the checkpoint of the first, which was
\* killed, and has written the output file
C27_Witness ==
  /\ build.pc = "cleanup"
  /\ history.runs = 2
  /\ Cardinality(build.processed) = CHECKPOINT_EVERY
  /\ build.failed > 0
  /\ Len(disk.output.entries) > CHECKPOINT_EVERY


\* the declared family of request r after cleanFamilyName and normalizeName
shortNameOf(r) == normalizeName(cleanFamilyName(req[r].family))

\* request r declares a family, and what is left of it after cleaning and
\* normalizing has at most two characters and is no key of the table
declaresShortName(r) ==
  /\ Answered(r)
  /\ req[r].family # <<>>
  /\ Len(shortNameOf(r)) <= 2
  /\ \A i \in 1..Len(Keys) : Keys[i] # shortNameOf(r)

\* the keys of the table that begin with the given name
keysBeginningWith(name) == {i \in 1..Len(Keys) : startsWith(Keys[i], name)}

\* C28, as claimed: a request whose cleaned and normalized family is empty
\* or one or two characters long, and no key, gets no name-override
\* response.
C28_ShortNameNoOverride ==
  \A r \in Slots :
    declaresShortName(r) => req[r].response.method # "name-override"

\* C28, amended: such a request gets the name-override response exactly
\* when some key begins with the short name, which the empty name always
\* does, and then it gets the list of the first such key.
C28_ShortNameOverrideByPrefix ==
  \A r \in Slots :
    declaresShortName(r) =>
      LET hits == keysBeginningWith(shortNameOf(r))
      IN  /\ (req[r].response.method = "name-override") = (hits # {})
          /\ Len(shortNameOf(r)) = 0 => hits = 1..Len(Keys)
          /\ hits # {} =>
               req[r].response.alternatives =
                 [i \in 1..Len(NAME_OVERRIDES[First(hits)].alts) |->
                    Alt(NAME_OVERRIDES[First(hits)].alts[i].family, "", 95,
                        NAME_OVERRIDES[First(hits)].alts[i].reason)]

\* the family "Fu" has got the list of futura
C28_Witness ==
  \E r \in Slots :
    /\ declaresShortName(r)
    /\ req[r].family = N_Fu
    /\ req[r].response.method = "name-override"
    /\ req[r].response.alternatives[1].family = F_Jost


\* the traversal has come to its end
traversed == crawl.batch = Len(crawl.site.batches) /\ allReturned

\* C29: in one extraction request fetchAndParseCSS sends at most one
\* request for each stylesheet URL and none for a call of depth above
\* MAX_IMPORT_DEPTH, whatever the order in which the responses of sibling
\* imports come, and the traversal ends.
C29_EachStylesheetOnceWithinDepth ==
  /\ [](/\ \A u \in CssUrls : crawl.fetches[u] <= 1
        /\ \A t \in 1..Len(crawl.calls) :
             /\ crawl.calls[t].depth <= MAX_IMPORT_DEPTH
             /\ crawl.calls[t].url \in crawl.fetchedUrls
        /\ \A t, c \in 1..Len(crawl.calls) :
             crawl.calls[t].url = crawl.calls[c].url => t = c)
  /\ <>traversed

\* siblings that import the same stylesheets have been traversed, and the
\* import that closes the cycle was not followed
C29_Witness ==
  /\ traversed
  /\ crawl.site = SITE_Diamond
  /\ crawl.fetchedUrls = CssUrls
  /\ \E t \in 1..Len(crawl.calls) :
       crawl.calls[t].url = "f" /\ crawl.calls[t].depth = MAX_IMPORT_DEPTH


\* what the probe glyph k of the font analysed adds to the serif sum
voteOf(k) ==
  IF args.in[k] = 0 THEN 0 ELSE serifVote(SERIF_TEST_CHARS[k], args.in[k])

====
